---- MODULE Spec2Model ----
(***************************************************************************)
(* Model of the Keenetic control module (src/unnamed/part_000): the        *)
(* KeeneticControl client (constructor, request/retry pipeline, domain     *)
(* operations, binary transfers, aggregate export) and the process-wide    *)
(* singleton accessor.                                                     *)
(*                                                                         *)
(* Conventions.  An optional option (`timeout?: number`) is the empty      *)
(* tuple <<>> when absent and the one-element tuple <<v>> when supplied.   *)
(* JavaScript values delivered to a caller are strings ("true", "false",   *)
(* "undefined", a parsed body).  A promise is a record with the fields     *)
(* status ("pending", "fulfilled", "rejected"), value and error.           *)
(***************************************************************************)
EXTENDS Integers, Sequences, FiniteSets, TLC

VARIABLES
    options,    \* the KeeneticControlOptions the client under test was built from
    client,     \* the KeeneticControl instance: timeout, retryCount, retryDelay, debug
    op,         \* the operation in progress ("none" before the call)
    pc,         \* position of the call: "idle", "fetch", "json", "delay", "done"
    response,   \* the Response whose body response.json() is reading (Absent otherwise)
    retries,    \* the `retries` argument of the current request() frame
    attempts,   \* number of transport (fetch) invocations made by the call
    outcomes,   \* outcomes[i]: how the i-th transport invocation ended
    timers,     \* armed abort timers (setTimeout at line 98): attempt and due time
    waits,      \* duration of each retryDelay wait completed so far, in order
    now,        \* the clock, in milliseconds since the client was built
    started,    \* started[i]: when the i-th transport invocation was made
    ended,      \* ended[i]: when the i-th transport invocation ended
    delayDue,   \* when the retryDelay wait in progress ends
    reqResult,  \* the promise returned by request()
    result,     \* the promise returned by the operation
    keeneticControlInstance, \* the module-level singleton (line 518)
    nextId,     \* identity of the next KeeneticControl object to be constructed
    calls,      \* the accessor calls made so far and what each delivered
    reads,      \* the nine reads of getFullConfiguration
    agg,        \* the promise returned by getFullConfiguration
    caller,     \* the function that issued the reads: getFullConfiguration or an exporter
    exported,   \* the promise returned by exportAsJson or exportAsYaml
    json,       \* the value handed to jsonToYaml
    yaml,       \* what jsonToYaml returned for it (<<>> before the call)
    keyed,      \* the keyed operations called so far and the request each made
    inflight,   \* the request() calls outstanding together on the client, one record each
    ctimers,    \* the abort timers armed by those calls: attempt <<call, number>> and due time
    clock,      \* the clock of those calls
    fired,      \* the abort timers that fell due: when, with what in flight, and what they aborted
    ssh,        \* the SSH2Client: host, username, port, connected, callbacks, keeneticControl
    execs,      \* the execute() calls made on it, one record each
    emitted,    \* the texts handed to onData, in order, with the call that emitted each
    onErrorCalls, \* number of invocations of onError
    onCloseCalls, \* number of invocations of onClose
    restCalls,  \* the commands handed to executeSshCommand
    sshCalls    \* the connect, execute and disconnect calls made, with the state around each

vars == <<options, client, op, pc, response, retries, attempts, outcomes, timers, waits,
          now, started, ended, delayDue, reqResult, result, keeneticControlInstance, nextId, calls,
          reads, agg, caller, exported, json, yaml, keyed, inflight, ctimers, clock, fired,
          ssh, execs, emitted, onErrorCalls, onCloseCalls, restCalls, sshCalls>>

callVars == <<op, pc, response, retries, attempts, outcomes, timers, waits, now, started,
              ended, delayDue, reqResult, result>>
singletonVars == <<keeneticControlInstance, nextId, calls>>
aggVars == <<reads, agg, caller, exported>>
yamlVars == <<json, yaml>>
pathVars == <<keyed>>
concVars == <<inflight, ctimers, clock, fired>>
sshVars == <<ssh, execs, emitted, onErrorCalls, onCloseCalls, restCalls, sshCalls>>
extVars == <<yamlVars, pathVars, concVars, sshVars>>

----------------------------------------------------------------------------
(* Bounds *)

\* largest retryCount supplied in the options of the client under test
MaxRetryCount == 2

\* number of accessor calls explored for the singleton
MaxCalls == 4

\* longest array of scalars handed to jsonToYaml
MaxItems == 2

\* number of reads of one aggregate export that have a failed attempt
MaxFailingReads == 1

\* number of calls of one keyed operation that are compared
MaxKeyedCalls == 2

\* number of connect, execute and disconnect calls made on the SSH2Client
MaxSshCalls == 3

----------------------------------------------------------------------------
(* Values *)

Absent == <<>>

Present(v) == <<v>>

NoError == [kind |-> "none", status |-> 0, attempt |-> 0]

Pending == [status |-> "pending", value |-> "", error |-> NoError]

Fulfilled(v) == [status |-> "fulfilled", value |-> v, error |-> NoError]

Rejected(e) == [status |-> "rejected", value |-> "", error |-> e]

\* Responses the transport can deliver: status and body text.
Responses ==
    { [status |-> 200, body |-> "{\"status\":\"ok\"}"],
      [status |-> 200, body |-> "{\"output\":\"done\"}"],
      [status |-> 204, body |-> ""],
      [status |-> 404, body |-> "{\"error\":\"not found\"}"],
      [status |-> 500, body |-> ""] }

\* How long the transport takes to answer or to fail, in milliseconds, when it
\* does either.
Latencies == {1}

\* How long response.json() or response.blob() takes once fetch has resolved:
\* an answer without a body has nothing left to arrive and the read settles in
\* the same millisecond; a body has arrived with the head or arrives later.
BodyLatencies(resp) == IF resp.body = "" THEN {0} ELSE {0} \cup Latencies

\* Response.ok: the status is in the range 200-299.
ResponseOk(resp) == resp.status >= 200 /\ resp.status <= 299

\* response.json() throws a SyntaxError on a body that is not JSON text.
JsonThrows(resp) == resp.body = ""

\* what response.json() evaluates to on a JSON body
JsonValue(resp) == resp.body

\* `response.output` on the value request() delivered: the property, or
\* undefined on an object that has none
OutputOf(v) == IF v = "{\"output\":\"done\"}" THEN "done" ELSE "undefined"

----------------------------------------------------------------------------
(* Constructor *)

\* `x || d` on an optional number: d when x is undefined or 0.
OrNumber(x, d) == IF x = Absent \/ x[1] = 0 THEN d ELSE x[1]

\* `x || false` on an optional boolean.
OrFalse(x) == IF x = Absent \/ x[1] = FALSE THEN FALSE ELSE x[1]

KeeneticControl(o) ==
    [ timeout    |-> OrNumber(o.timeout, 10000),
      retryCount |-> OrNumber(o.retryCount, 3),
      retryDelay |-> OrNumber(o.retryDelay, 1000),
      debug      |-> OrFalse(o.debug) ]

\* options that supply credentials only
NoOptions == [timeout |-> Absent, retryCount |-> Absent, retryDelay |-> Absent, debug |-> Absent]

\* Options of the client whose calls are explored.
CallOptions ==
    [ timeout    : {Absent, Present(1)},
      retryCount : {Absent} \cup {Present(n) : n \in 0..MaxRetryCount},
      retryDelay : {Absent, Present(250)},
      debug      : {Absent} ]

\* Options handed to the singleton accessor.
AccessorOptions ==
    [ timeout    : {Absent, Present(0), Present(5000)},
      retryCount : {Absent, Present(0), Present(1)},
      retryDelay : {Absent, Present(0), Present(250)},
      debug      : {Absent, Present(FALSE), Present(TRUE)} ]

----------------------------------------------------------------------------
(* Singleton accessor *)

\* keeneticControlInstance = null
Null == [id |-> 0, options |-> Absent, client |-> KeeneticControl(NoOptions)]

NotInitialized == "KeeneticControl not initialized. Provide options for first call."

\* new KeeneticControl(o), the id-th object constructed
NewInstance(id, o) == [id |-> id, options |-> Present(o), client |-> KeeneticControl(o)]

\* getKeeneticControl that returns null instead of throwing
GetKeeneticControlNoThrow(inst, o, id) ==
    IF inst.id = 0 /\ o # Absent
    THEN [instance |-> NewInstance(id, o[1]), built |-> id, returned |-> id, threw |-> ""]
    ELSE [instance |-> inst, built |-> 0, returned |-> inst.id, threw |-> ""]

\* getKeeneticControl that rebuilds the handle whenever options are supplied
GetKeeneticControlRebuilds(inst, o, id) ==
    IF o # Absent
    THEN [instance |-> NewInstance(id, o[1]), built |-> id, returned |-> id, threw |-> ""]
    ELSE IF inst.id = 0
    THEN [instance |-> inst, built |-> 0, returned |-> 0, threw |-> NotInitialized]
    ELSE [instance |-> inst, built |-> 0, returned |-> inst.id, threw |-> ""]

\* getKeeneticControl(o), o = Absent when called without options: the new
\* value of the singleton, the identity constructed (0: none), the identity
\* returned (0: none) and the message of the error thrown ("": none).
GetKeeneticControlOutcome(inst, o, id) ==
    IF inst.id = 0 /\ o # Absent
    THEN [instance |-> NewInstance(id, o[1]), built |-> id, returned |-> id, threw |-> ""]
    ELSE IF inst.id = 0 /\ o = Absent
    THEN [instance |-> inst, built |-> 0, returned |-> 0, threw |-> NotInitialized]
    ELSE [instance |-> inst, built |-> 0, returned |-> inst.id, threw |-> ""]

\* initKeeneticControl(o)
InitKeeneticControlOutcome(inst, o, id) ==
    [instance |-> NewInstance(id, o), built |-> id, returned |-> id, threw |-> ""]

Accessor(fn, o, out) ==
    /\ Len(calls) < MaxCalls
    /\ keeneticControlInstance' = out.instance
    /\ nextId' = IF out.built # 0 THEN nextId + 1 ELSE nextId
    /\ calls' = Append(calls, [fn |-> fn, hasOptions |-> o # Absent,
                               built |-> out.built, returned |-> out.returned,
                               threw |-> out.threw])
    /\ UNCHANGED <<options, client, callVars, aggVars, extVars>>

getKeeneticControl(o) ==
    Accessor("get", o, GetKeeneticControlOutcome(keeneticControlInstance, o, nextId))

initKeeneticControl(o) ==
    Accessor("init", Present(o), InitKeeneticControlOutcome(keeneticControlInstance, o, nextId))

----------------------------------------------------------------------------
(* Operations *)

\* operations that go through request()
PipelineOps ==
    {"testConnection", "getSystemInfo", "createWifiNetwork", "deleteWifiNetwork",
     "blockClient", "addFirewallRule", "configureDns", "executeCliCommand",
     "executeSshCommand", "reboot"}

\* operations that call fetch directly
DirectOps ==
    {"backupConfiguration", "restoreConfiguration", "updateFirmware", "exportAsZud"}

\* operations that await request() and return nothing
VoidOps == {"deleteWifiNetwork", "blockClient", "reboot"}

\* a catch block that throws a fresh generic error in place of the one caught
AttemptErrorWrapped(o, i) == [kind |-> "api", status |-> 0, attempt |-> i]

\* The failure thrown inside the try block of request() for attempt i.
AttemptError(o, i) ==
    IF o.kind = "network" THEN [kind |-> "network", status |-> 0, attempt |-> i]
    ELSE IF o.kind = "abort" THEN [kind |-> "abort", status |-> 0, attempt |-> i]
    ELSE IF ~ResponseOk(o.resp) THEN [kind |-> "api", status |-> o.resp.status, attempt |-> i]
    ELSE [kind |-> "syntax", status |-> o.resp.status, attempt |-> i]

\* Whether attempt outcome o leaves the try block of request() by a throw.
AttemptFails(o) ==
    \/ o.kind # "response"
    \/ ~ResponseOk(o.resp)
    \/ JsonThrows(o.resp)

\* The catch block of request(): retry while retries remain.
ShouldRetry(r) == r > 0

\* What the operation delivers once its request() promise has settled.
OpResult(o, rr) ==
    IF o = "testConnection"
    THEN IF rr.status = "fulfilled" THEN Fulfilled("true") ELSE Fulfilled("false")
    ELSE IF o \in VoidOps
    THEN IF rr.status = "fulfilled" THEN Fulfilled("undefined") ELSE rr
    ELSE IF o \in {"executeCliCommand", "executeSshCommand"}
    THEN IF rr.status = "fulfilled" THEN Fulfilled(OutputOf(rr.value)) ELSE rr
    ELSE rr

\* setTimeout(() => controller.abort(), this.timeout) for attempt i at time t
ArmTimeout(tms, i, t) == tms \cup {[attempt |-> i, due |-> t + client.timeout]}

\* clearTimeout(timeoutId) for attempt i
ClearTimeout(tms, i) == {tm \in tms : tm.attempt # i}

\* The event loop runs timers in the order they fall due: the times at which
\* something armed is still due (abort timers, and the retryDelay wait).
PendingDues ==
    {tm.due : tm \in timers} \cup (IF pc = "delay" THEN {delayDue} ELSE {})

\* An event can happen at time t when nothing armed falls due before t.
CanHappenAt(t) == t >= now /\ \A d \in PendingDues : d >= t

ResponseOutcome(resp) == [kind |-> "response", resp |-> resp]

NetworkOutcome == [kind |-> "network", resp |-> [status |-> 0, body |-> ""]]

AbortOutcome == [kind |-> "abort", resp |-> [status |-> 0, body |-> ""]]

\* a wait that doubles with every retry already made
RetryWaitBackoff(c, r) == c.retryDelay * (c.retryCount - r + 1)

\* setTimeout(resolve, this.retryDelay): how long the catch block waits before
\* the retry, with r retries remaining.
RetryWait(c, r) == c.retryDelay

\* request(): the try block ended attempt `attempts` at time t with outcome o;
\* tms is the timer set after the try block.
Settle(o, tms, t) ==
    /\ outcomes' = Append(outcomes, o)
    /\ ended' = Append(ended, t)
    /\ timers' = tms
    /\ now' = t
    /\ response' = Absent
    /\ UNCHANGED <<op, attempts, waits, retries, started>>
    /\ UNCHANGED <<options, client, singletonVars, aggVars, extVars>>
    /\ IF ~AttemptFails(o)
       THEN /\ reqResult' = Fulfilled(JsonValue(o.resp))
            /\ result' = OpResult(op, reqResult')
            /\ pc' = "done"
            /\ UNCHANGED delayDue
       ELSE IF ShouldRetry(retries)
       THEN /\ pc' = "delay"
            /\ delayDue' = t + RetryWait(client, retries)
            /\ UNCHANGED <<reqResult, result>>
       ELSE /\ reqResult' = Rejected(AttemptError(o, attempts))
            /\ result' = OpResult(op, reqResult')
            /\ pc' = "done"
            /\ UNCHANGED delayDue

\* A pipeline operation is called: request(endpoint, options) with the default
\* retries argument runs up to its first `await fetch`.
Call(o) ==
    /\ pc = "idle"
    /\ o \in PipelineOps
    /\ op' = o
    /\ retries' = client.retryCount
    /\ attempts' = 1
    /\ started' = <<now>>
    /\ timers' = ArmTimeout(timers, 1, now)
    /\ pc' = "fetch"
    /\ UNCHANGED <<response, outcomes, ended, waits, reqResult, result, now, delayDue>>
    /\ UNCHANGED <<options, client, singletonVars, aggVars, extVars>>

\* fetch resolves with a response after latency d: clearTimeout, then the
\* ok check throws on a status outside 200-299; otherwise request() awaits
\* response.json(), with no timer armed for the attempt any more.
FetchResolves(resp, d) ==
    /\ pc = "fetch"
    /\ op \in PipelineOps
    /\ CanHappenAt(now + d)
    /\ IF ResponseOk(resp)
       THEN /\ pc' = "json"
            /\ response' = Present(resp)
            /\ timers' = ClearTimeout(timers, attempts)
            /\ now' = now + d
            /\ UNCHANGED <<op, retries, attempts, outcomes, started, ended, waits,
                           delayDue, reqResult, result>>
            /\ UNCHANGED <<options, client, singletonVars, aggVars, extVars>>
       ELSE Settle(ResponseOutcome(resp), ClearTimeout(timers, attempts), now + d)

\* response.json() settles d after the latest event: it resolves with the
\* value of a JSON body and throws on any other body.
JsonSettles(d) ==
    /\ pc = "json"
    /\ op \in PipelineOps
    /\ d \in BodyLatencies(response[1])
    /\ CanHappenAt(now + d)
    /\ Settle(ResponseOutcome(response[1]), timers, now + d)

\* fetch rejects with a network error after latency d: the catch block runs,
\* the timer stays armed.
FetchRejects(d) ==
    /\ pc = "fetch"
    /\ op \in PipelineOps
    /\ CanHappenAt(now + d)
    /\ Settle(NetworkOutcome, timers, now + d)

\* one controller shared by every attempt: its abort hits whatever is in flight
AbortsInFlight(tm, current) == TRUE

\* controller.abort() in the timer armed by attempt tm.attempt acts on the
\* controller created by that attempt: whether it is the one the fetch of
\* attempt `current` listens to.
Aborts(tm, current) == tm.attempt = current

\* The abort timer tm falls due: controller.abort() rejects the fetch of its
\* attempt if that fetch is still in flight, and does nothing otherwise.
TimerFires(tm) ==
    /\ tm \in timers
    /\ CanHappenAt(tm.due)
    /\ IF pc = "fetch" /\ op \in PipelineOps /\ Aborts(tm, attempts)
       THEN Settle(AbortOutcome, timers \ {tm}, tm.due)
       ELSE /\ timers' = timers \ {tm}
            /\ now' = tm.due
            /\ UNCHANGED <<op, pc, response, retries, attempts, outcomes, started, ended,
                           waits, reqResult, result, delayDue>>
            /\ UNCHANGED <<options, client, singletonVars, aggVars, extVars>>

\* The retryDelay wait ends: request(endpoint, options, retries - 1) runs up to
\* its `await fetch`.
DelayElapses ==
    /\ pc = "delay"
    /\ CanHappenAt(delayDue)
    /\ now' = delayDue
    /\ waits' = Append(waits, delayDue - ended[attempts])
    /\ retries' = retries - 1
    /\ attempts' = attempts + 1
    /\ started' = Append(started, delayDue)
    /\ timers' = ArmTimeout(timers, attempts + 1, delayDue)
    /\ pc' = "fetch"
    /\ UNCHANGED <<op, response, outcomes, ended, reqResult, result, delayDue>>
    /\ UNCHANGED <<options, client, singletonVars, aggVars, extVars>>

\* a binary transfer without the `if (!response.ok)` check
DirectResultUnchecked(o, oc) ==
    IF oc.kind # "response" THEN Rejected(AttemptError(oc, 1))
    ELSE IF o \in {"backupConfiguration", "exportAsZud"} THEN Fulfilled("blob")
    ELSE Fulfilled("undefined")

\* What a binary transfer delivers for the outcome of its single fetch.
DirectResult(o, oc) ==
    IF oc.kind # "response" THEN Rejected(AttemptError(oc, 1))
    ELSE IF ~ResponseOk(oc.resp) THEN Rejected(AttemptError(oc, 1))
    ELSE IF o \in {"backupConfiguration", "exportAsZud"} THEN Fulfilled("blob")
    ELSE Fulfilled("undefined")

\* backupConfiguration, restoreConfiguration, updateFirmware and exportAsZud
\* (which returns backupConfiguration()) call fetch directly.
CallDirect(o) ==
    /\ pc = "idle"
    /\ o \in DirectOps
    /\ op' = o
    /\ attempts' = 1
    /\ started' = <<now>>
    /\ pc' = "fetch"
    /\ UNCHANGED <<response, retries, outcomes, ended, timers, waits, reqResult, result,
                   now, delayDue>>
    /\ UNCHANGED <<options, client, singletonVars, aggVars, extVars>>

\* The fetch of a binary transfer settles with oc.  backupConfiguration, and
\* exportAsZud through it, go on to await response.blob() when the response is
\* ok; the other transfers, and every failure, end here.
DirectSettles(oc, d) ==
    /\ pc = "fetch"
    /\ op \in DirectOps
    /\ now' = now + d
    /\ IF op \in {"backupConfiguration", "exportAsZud"} /\ oc.kind = "response" /\ ResponseOk(oc.resp)
       THEN /\ pc' = "blob"
            /\ response' = Present(oc.resp)
            /\ UNCHANGED <<outcomes, ended, result>>
       ELSE /\ outcomes' = Append(outcomes, oc)
            /\ ended' = Append(ended, now + d)
            /\ result' = DirectResult(op, oc)
            /\ pc' = "done"
            /\ UNCHANGED response
    /\ UNCHANGED <<op, retries, attempts, started, timers, waits, reqResult, delayDue>>
    /\ UNCHANGED <<options, client, singletonVars, aggVars, extVars>>

\* response.blob() of backupConfiguration settles with the body, d after the
\* fetch resolved
BlobSettles(d) ==
    /\ pc = "blob"
    /\ op \in DirectOps
    /\ d \in BodyLatencies(response[1])
    /\ outcomes' = Append(outcomes, ResponseOutcome(response[1]))
    /\ ended' = Append(ended, now + d)
    /\ now' = now + d
    /\ result' = DirectResult(op, ResponseOutcome(response[1]))
    /\ pc' = "done"
    /\ response' = Absent
    /\ UNCHANGED <<op, retries, attempts, started, timers, waits, reqResult, delayDue>>
    /\ UNCHANGED <<options, client, singletonVars, aggVars, extVars>>

----------------------------------------------------------------------------
(* Aggregate export *)

\* the nine reads, in the order of the array handed to Promise.all
ReadMethods ==
    << "getSystemInfo", "getInterfaces", "getWifiNetworks", "getConnectedClients",
       "getVpnConnections", "getUsbDevices", "getFirewallRules", "getDnsSettings",
       "getDhcpServers" >>

\* the endpoint each read requests
ReadEndpoint(m) ==
    CASE m = "getSystemInfo"       -> "/rci/show/system"
      [] m = "getInterfaces"       -> "/rci/show/interface"
      [] m = "getWifiNetworks"     -> "/rci/show/interface/wireless"
      [] m = "getConnectedClients" -> "/rci/show/ip/hotspot"
      [] m = "getVpnConnections"   -> "/rci/show/vpn"
      [] m = "getUsbDevices"       -> "/rci/show/usb"
      [] m = "getFirewallRules"    -> "/rci/show/ip/firewall"
      [] m = "getDnsSettings"      -> "/rci/show/ip/dns"
      [] m = "getDhcpServers"      -> "/rci/show/ip/dhcp/server"

\* What the router answers on an endpoint: its resource (a JSON body that
\* names the endpoint it describes), or a server error.
RouterResponses(e) ==
    { [status |-> 200, body |-> e], [status |-> 500, body |-> ""] }

\* the object literal returned by getFullConfiguration, from the destructured
\* array [system, interfaces, wifi, clients, vpn, usb, firewall, dns, dhcp]
Snapshot(r) ==
    [ system     |-> r[1],
      interfaces |-> r[2],
      wifi       |-> r[3],
      clients    |-> r[4],
      vpn        |-> r[5],
      usb        |-> r[6],
      firewall   |-> [enabled |-> TRUE, defaultPolicy |-> "drop", rules |-> r[7]],
      dns        |-> r[8],
      dhcp       |-> r[9] ]

\* a join that waits for every read to settle and keeps what succeeded
PromiseAllSettled(a, rs, i) ==
    IF a.status # "pending" THEN a
    ELSE IF \A j \in 1..Len(rs) : rs[j].promise.status # "pending"
    THEN Fulfilled(Snapshot([j \in 1..Len(rs) |-> rs[j].promise.value]))
    ELSE a

\* await Promise.all(rs) and the return that follows it, after promise i of rs
\* has settled: the new state of the promise of getFullConfiguration.
PromiseAll(a, rs, i) ==
    IF a.status # "pending" THEN a
    ELSE IF rs[i].promise.status = "rejected" THEN Rejected(rs[i].promise.error)
    ELSE IF \A j \in 1..Len(rs) : rs[j].promise.status = "fulfilled"
    THEN Fulfilled(Snapshot([j \in 1..Len(rs) |-> rs[j].promise.value]))
    ELSE a

----------------------------------------------------------------------------
(* YAML transcription *)

(* Text is a sequence of one-character strings.  A JSON value is a record  *)
(* tagged by t: "null", "num" (n), "bool" (b), "str" (s), "arr" (items),   *)
(* "obj" (keys, in insertion order, and vals).                             *)

JNull == [t |-> "null"]

JNum(n) == [t |-> "num", n |-> n]

JBool(b) == [t |-> "bool", b |-> b]

JStr(s) == [t |-> "str", s |-> s]

JArr(items) == [t |-> "arr", items |-> items]

JObj(keys, vals) == [t |-> "obj", keys |-> keys, vals |-> vals]

\* " ".repeat(n)
RECURSIVE Repeat(_)
Repeat(n) == IF n <= 0 THEN <<>> ELSE <<" ">> \o Repeat(n - 1)

\* String(n) for an integer n
RECURSIVE Decimal(_)
Decimal(n) ==
    LET digit == <<"0", "1", "2", "3", "4", "5", "6", "7", "8", "9">>[(n % 10) + 1]
    IN  IF n < 0 THEN <<"-">> \o Decimal(0 - n)
        ELSE IF n < 10 THEN <<digit>> ELSE Decimal(n \div 10) \o <<digit>>

\* the grave accent (U+0060), which a TLA+ string cannot hold
GraveAccent == "grave"

\* the characters of the class in the json.match(...) test of a string: the
\* punctuation : # { } [ ] , & * ? | < > = ! % @ and the grave accent
QuotedChars ==
    {":", "#", "{", "}", "[", "]", ",", "&", "*", "?", "|", "<", ">", "=", "!", "%", "@",
     GraveAccent}

NeedsQuote(str) == \E i \in 1..Len(str) : str[i] \in QuotedChars

\* json.replace: every double quote gets a backslash in front
RECURSIVE EscapeQuotes(_)
EscapeQuotes(str) ==
    IF str = <<>> THEN <<>>
    ELSE (IF Head(str) = "\"" THEN <<"\\", "\"">> ELSE <<Head(str)>>) \o EscapeQuotes(Tail(str))

\* the white space and line terminators that trim and trimStart strip, those a
\* string can hold here: tab, line feed, vertical tab, form feed, carriage
\* return, space, no-break space, ogham space mark, byte order mark
WhiteSpace == {" ", "\t", "\n", "", "\f", "\r", " ", " ", "﻿"}

\* String.prototype.trimStart
RECURSIVE TrimStart(_)
TrimStart(str) ==
    IF str # <<>> /\ Head(str) \in WhiteSpace THEN TrimStart(Tail(str)) ELSE str

\* parts.join("\n")
RECURSIVE JoinLines(_)
JoinLines(parts) ==
    IF Len(parts) = 0 THEN <<>>
    ELSE IF Len(parts) = 1 THEN parts[1]
    ELSE parts[1] \o <<"\n">> \o JoinLines(Tail(parts))

\* an indentation step of four spaces
ChildIndentWide(indent) == indent + 4

\* `indent + 2`: the indentation handed to the rendering of a nested value
ChildIndent(indent) == indent + 2

\* jsonToYaml(json, indent)
RECURSIVE jsonToYaml(_, _)
jsonToYaml(j, indent) ==
    LET spaces == Repeat(indent)
        IsFilledObject(v) == v.t = "obj" /\ Len(v.keys) > 0
        IsFilledArray(v) == v.t = "arr" /\ Len(v.items) > 0
    IN  IF j.t = "null" THEN <<"n", "u", "l", "l">>
        ELSE IF j.t = "str"
        THEN IF NeedsQuote(j.s) THEN <<"\"">> \o EscapeQuotes(j.s) \o <<"\"">> ELSE j.s
        ELSE IF j.t = "num" THEN Decimal(j.n)
        ELSE IF j.t = "bool" THEN (IF j.b THEN <<"t", "r", "u", "e">> ELSE <<"f", "a", "l", "s", "e">>)
        ELSE IF j.t = "arr"
        THEN IF Len(j.items) = 0 THEN <<"[", "]">>
             ELSE JoinLines([i \in 1..Len(j.items) |->
                     spaces \o <<"-", " ">>
                            \o TrimStart(jsonToYaml(j.items[i], ChildIndent(indent)))])
        ELSE IF Len(j.keys) = 0 THEN <<"{", "}">>
             ELSE JoinLines([i \in 1..Len(j.keys) |->
                     IF IsFilledObject(j.vals[i]) \/ IsFilledArray(j.vals[i])
                     THEN spaces \o j.keys[i] \o <<":", "\n">>
                                 \o jsonToYaml(j.vals[i], ChildIndent(indent))
                     ELSE spaces \o j.keys[i] \o <<":", " ">>
                                 \o jsonToYaml(j.vals[i], ChildIndent(indent))])

\* jsonToYaml(json) with the default indent: the function applied to a value
\* on its own.  exportAsYaml, which awaits getFullConfiguration first, is the
\* action of that name.
Transcribe ==
    /\ yaml = <<>>
    /\ yaml' = jsonToYaml(json, 0)
    /\ UNCHANGED <<json, options, client, callVars, singletonVars, aggVars, pathVars, concVars, sshVars>>

----------------------------------------------------------------------------
(* Aggregate export: the calls *)

\* the characters of a string, as text
Chars(str) == [i \in 1..Len(str) |-> SubSeq(str, i, i)]

\* The quoted form JSON.stringify gives a string: the quote, the backslash and
\* the control characters from U+0001 to U+001F are escaped.
QuoteJson(str) ==
    LET Escaped(c) ==
            CASE c = "\"" -> <<"\\", "\"">>
              [] c = "\\" -> <<"\\", "\\">>
              [] c = "\n" -> <<"\\", "n">>
              [] c = "\r" -> <<"\\", "r">>
              [] c = "\t" -> <<"\\", "t">>
              [] c = "\f" -> <<"\\", "f">>
              [] c = "" -> <<"\\", "b">>
              [] c = "" -> <<"\\", "u", "0", "0", "0", "1">>
              [] c = "" -> <<"\\", "u", "0", "0", "0", "2">>
              [] c = "" -> <<"\\", "u", "0", "0", "0", "3">>
              [] c = "" -> <<"\\", "u", "0", "0", "0", "4">>
              [] c = "" -> <<"\\", "u", "0", "0", "0", "5">>
              [] c = "" -> <<"\\", "u", "0", "0", "0", "6">>
              [] c = "" -> <<"\\", "u", "0", "0", "0", "7">>
              [] c = "" -> <<"\\", "u", "0", "0", "0", "b">>
              [] c = "" -> <<"\\", "u", "0", "0", "0", "e">>
              [] c = "" -> <<"\\", "u", "0", "0", "0", "f">>
              [] c = "" -> <<"\\", "u", "0", "0", "1", "0">>
              [] c = "" -> <<"\\", "u", "0", "0", "1", "1">>
              [] c = "" -> <<"\\", "u", "0", "0", "1", "2">>
              [] c = "" -> <<"\\", "u", "0", "0", "1", "3">>
              [] c = "" -> <<"\\", "u", "0", "0", "1", "4">>
              [] c = "" -> <<"\\", "u", "0", "0", "1", "5">>
              [] c = "" -> <<"\\", "u", "0", "0", "1", "6">>
              [] c = "" -> <<"\\", "u", "0", "0", "1", "7">>
              [] c = "" -> <<"\\", "u", "0", "0", "1", "8">>
              [] c = "" -> <<"\\", "u", "0", "0", "1", "9">>
              [] c = "" -> <<"\\", "u", "0", "0", "1", "a">>
              [] c = "" -> <<"\\", "u", "0", "0", "1", "b">>
              [] c = "" -> <<"\\", "u", "0", "0", "1", "c">>
              [] c = "" -> <<"\\", "u", "0", "0", "1", "d">>
              [] c = "" -> <<"\\", "u", "0", "0", "1", "e">>
              [] c = "" -> <<"\\", "u", "0", "0", "1", "f">>
              [] OTHER -> <<c>>
        RECURSIVE Body(_)
        Body(t) == IF t = <<>> THEN <<>> ELSE Escaped(Head(t)) \o Body(Tail(t))
    IN  <<"\"">> \o Body(str) \o <<"\"">>

\* parts.join(",\n")
RECURSIVE JoinMembers(_)
JoinMembers(parts) ==
    IF Len(parts) = 0 THEN <<>>
    ELSE IF Len(parts) = 1 THEN parts[1]
    ELSE parts[1] \o <<",", "\n">> \o JoinMembers(Tail(parts))

\* JSON.stringify(j, null, 2), for a value nested indent spaces deep
RECURSIVE JsonStringify(_, _)
JsonStringify(j, indent) ==
    IF j.t = "null" THEN <<"n", "u", "l", "l">>
    ELSE IF j.t = "str" THEN QuoteJson(j.s)
    ELSE IF j.t = "num" THEN Decimal(j.n)
    ELSE IF j.t = "bool" THEN (IF j.b THEN <<"t", "r", "u", "e">> ELSE <<"f", "a", "l", "s", "e">>)
    ELSE IF j.t = "arr"
    THEN IF Len(j.items) = 0 THEN <<"[", "]">>
         ELSE <<"[", "\n">>
              \o JoinMembers([i \in 1..Len(j.items) |->
                    Repeat(indent + 2) \o JsonStringify(j.items[i], indent + 2)])
              \o <<"\n">> \o Repeat(indent) \o <<"]">>
    ELSE IF Len(j.keys) = 0 THEN <<"{", "}">>
         ELSE <<"{", "\n">>
              \o JoinMembers([i \in 1..Len(j.keys) |->
                    Repeat(indent + 2) \o QuoteJson(j.keys[i]) \o <<":", " ">>
                        \o JsonStringify(j.vals[i], indent + 2)])
              \o <<"\n">> \o Repeat(indent) \o <<"}">>

\* the configuration object as a JSON value; the resource of a read is the
\* string that names its endpoint (RouterResponses)
ConfigJson(c) ==
    JObj(<< Chars("system"), Chars("interfaces"), Chars("wifi"), Chars("clients"),
            Chars("vpn"), Chars("usb"), Chars("firewall"), Chars("dns"), Chars("dhcp") >>,
         << JStr(Chars(c.system)), JStr(Chars(c.interfaces)), JStr(Chars(c.wifi)),
            JStr(Chars(c.clients)), JStr(Chars(c.vpn)), JStr(Chars(c.usb)),
            JObj(<< Chars("enabled"), Chars("defaultPolicy"), Chars("rules") >>,
                 << JBool(c.firewall.enabled), JStr(Chars(c.firewall.defaultPolicy)),
                    JStr(Chars(c.firewall.rules)) >>),
            JStr(Chars(c.dns)), JStr(Chars(c.dhcp)) >>)

\* What the function that issued the reads returns once the promise a of
\* getFullConfiguration is what it is: exportAsJson and exportAsYaml await it
\* and convert the configuration; a rejection passes through.
ExportResult(fn, a) ==
    IF fn \notin {"exportAsJson", "exportAsYaml"} \/ a.status = "pending" THEN Pending
    ELSE IF a.status = "rejected" THEN a
    ELSE IF fn = "exportAsJson" THEN Fulfilled(JsonStringify(ConfigJson(a.value), 0))
    ELSE Fulfilled(jsonToYaml(ConfigJson(a.value), 0))

\* The nine reads are issued, each a request() with the default retries
\* argument that runs up to its `await fetch`, by getFullConfiguration() called
\* directly or from exportAsJson() or exportAsYaml().
IssueReads(fn) ==
    /\ reads = <<>>
    /\ caller' = fn
    /\ reads' = [i \in 1..Len(ReadMethods) |->
                    [pc |-> "fetch", response |-> Absent, retries |-> client.retryCount,
                     promise |-> Pending]]
    /\ UNCHANGED <<agg, exported, options, client, callVars, singletonVars, extVars>>

getFullConfiguration == IssueReads("getFullConfiguration")

exportAsJson == IssueReads("exportAsJson")

exportAsYaml == IssueReads("exportAsYaml")

\* the reads that have had a failed attempt
FailingReads ==
    {j \in 1..Len(reads) : \/ reads[j].pc = "delay"
                           \/ reads[j].retries < client.retryCount
                           \/ reads[j].promise.status = "rejected"}

\* read i can have a failed attempt
MayFail(i) == i \in FailingReads \/ Cardinality(FailingReads) < MaxFailingReads

\* request() of read i: the attempt in flight ends with outcome o
ReadAfterAttempt(r, o) ==
    IF ~AttemptFails(o)
    THEN [r EXCEPT !.pc = "done", !.response = Absent,
                   !.promise = Fulfilled(JsonValue(o.resp))]
    ELSE IF ShouldRetry(r.retries)
    THEN [r EXCEPT !.pc = "delay", !.response = Absent]
    ELSE [r EXCEPT !.pc = "done", !.response = Absent,
                   !.promise = Rejected(AttemptError(o, client.retryCount - r.retries + 1))]

\* read i becomes r: Promise.all and the functions awaiting it follow when the
\* promise of the read has settled
ReadBecomes(i, r) ==
    /\ reads' = [reads EXCEPT ![i] = r]
    /\ agg' = IF r.promise.status = "pending" THEN agg ELSE PromiseAll(agg, reads', i)
    /\ exported' = ExportResult(caller, agg')
    /\ UNCHANGED <<caller, options, client, callVars, singletonVars, extVars>>

\* the fetch of read i resolves with a response: clearTimeout, then the ok
\* check throws, or request() awaits response.json()
ReadFetchResolves(i, resp) ==
    /\ i \in 1..Len(reads)
    /\ reads[i].pc = "fetch"
    /\ IF ResponseOk(resp)
       THEN ReadBecomes(i, [reads[i] EXCEPT !.pc = "json", !.response = Present(resp)])
       ELSE /\ MayFail(i)
            /\ ReadBecomes(i, ReadAfterAttempt(reads[i], ResponseOutcome(resp)))

\* response.json() of read i settles
ReadJsonSettles(i) ==
    /\ i \in 1..Len(reads)
    /\ reads[i].pc = "json"
    /\ JsonThrows(reads[i].response[1]) => MayFail(i)
    /\ ReadBecomes(i, ReadAfterAttempt(reads[i], ResponseOutcome(reads[i].response[1])))

\* The abort timer of the attempt of read i falls due while its fetch is in
\* flight.  The transport of the aggregate answers or stays silent, so the
\* timer of an attempt is armed exactly while its fetch is in flight.  The
\* aggregate keeps no clock: the events of different reads come in any order.
ReadTimerFires(i) ==
    /\ i \in 1..Len(reads)
    /\ reads[i].pc = "fetch"
    /\ MayFail(i)
    /\ ReadBecomes(i, ReadAfterAttempt(reads[i], AbortOutcome))

\* the retryDelay wait of read i ends: request(endpoint, options, retries - 1)
ReadDelayElapses(i) ==
    /\ i \in 1..Len(reads)
    /\ reads[i].pc = "delay"
    /\ ReadBecomes(i, [reads[i] EXCEPT !.pc = "fetch", !.retries = @ - 1])

----------------------------------------------------------------------------
(* Keyed endpoint operations *)

\* operations keyed by a string, and operations keyed by a number
StringKeyedOps ==
    {"getInterface", "configureInterface", "configureWifiNetwork", "deleteWifiNetwork",
     "blockClient", "unblockClient", "configureVpn", "configureDhcpServer"}
NumberKeyedOps == {"updateFirewallRule", "deleteFirewallRule"}
KeyedOps == StringKeyedOps \cup NumberKeyedOps

Digits == <<"0", "1", "2", "3", "4", "5", "6", "7", "8", "9">>

\* The text a template literal substitutes for an integer.
RECURSIVE NumberText(_)
NumberText(n) ==
    IF n < 0 THEN "-" \o NumberText(0 - n)
    ELSE IF n < 10 THEN Digits[n + 1]
    ELSE NumberText(n \div 10) \o Digits[(n % 10) + 1]

\* The text a template literal substitutes for the key of operation o.
KeyText(o, key) == IF o \in NumberKeyedOps THEN NumberText(key) ELSE key

\* The method each keyed operation passes to request() (GET when it passes none).
KeyedMethod(o) ==
    CASE o = "getInterface" -> "GET"
      [] o \in {"configureInterface", "configureWifiNetwork", "configureVpn",
                "updateFirewallRule", "configureDhcpServer"} -> "PATCH"
      [] o \in {"deleteWifiNetwork", "deleteFirewallRule"} -> "DELETE"
      [] o \in {"blockClient", "unblockClient"} -> "POST"

\* a handler that addresses the collection and leaves the key out of the path
KeyedEndpointOfCollection(o, key) ==
    CASE o = "getInterface" -> "/rci/show/interface/" \o KeyText(o, key)
      [] o = "configureInterface" -> "/rci/interface/" \o KeyText(o, key)
      [] o = "configureWifiNetwork" -> "/rci/wireless/ssid/" \o KeyText(o, key)
      [] o = "deleteWifiNetwork" -> "/rci/wireless/ssid/" \o KeyText(o, key)
      [] o = "blockClient" -> "/rci/ip/hotspot/mac/" \o KeyText(o, key) \o "/block"
      [] o = "unblockClient" -> "/rci/ip/hotspot/mac/" \o KeyText(o, key) \o "/unblock"
      [] o = "configureVpn" -> "/rci/vpn/" \o KeyText(o, key)
      [] o = "updateFirewallRule" -> "/rci/ip/firewall/rule/" \o KeyText(o, key)
      [] o = "deleteFirewallRule" -> "/rci/ip/firewall/rule"
      [] o = "configureDhcpServer" -> "/rci/ip/dhcp/server/" \o KeyText(o, key)

\* The endpoint each keyed operation passes to request(): its template literal.
KeyedEndpoint(o, key) ==
    CASE o = "getInterface" -> "/rci/show/interface/" \o KeyText(o, key)
      [] o = "configureInterface" -> "/rci/interface/" \o KeyText(o, key)
      [] o = "configureWifiNetwork" -> "/rci/wireless/ssid/" \o KeyText(o, key)
      [] o = "deleteWifiNetwork" -> "/rci/wireless/ssid/" \o KeyText(o, key)
      [] o = "blockClient" -> "/rci/ip/hotspot/mac/" \o KeyText(o, key) \o "/block"
      [] o = "unblockClient" -> "/rci/ip/hotspot/mac/" \o KeyText(o, key) \o "/unblock"
      [] o = "configureVpn" -> "/rci/vpn/" \o KeyText(o, key)
      [] o = "updateFirewallRule" -> "/rci/ip/firewall/rule/" \o KeyText(o, key)
      [] o = "deleteFirewallRule" -> "/rci/ip/firewall/rule/" \o KeyText(o, key)
      [] o = "configureDhcpServer" -> "/rci/ip/dhcp/server/" \o KeyText(o, key)

\* keys handed to the operations keyed by a string, and to those keyed by a number
StringKeys == {"MyWifi", "Home", "Home2", "Bridge0", "aa:bb:cc:dd:ee:ff", "l2tp", "a/block"}
NumberKeys == {0, 1, 2, 10, 12, 21, 100}
KeysOf(o) == IF o \in NumberKeyedOps THEN NumberKeys ELSE StringKeys

\* A keyed operation is called: it hands its endpoint and method to request();
\* the calls recorded are calls of one operation.
CallKeyed(o, key) ==
    /\ Len(keyed) < MaxKeyedCalls
    /\ \A i \in 1..Len(keyed) : keyed[i].op = o
    /\ keyed' = Append(keyed, [op |-> o, key |-> key,
                               method |-> KeyedMethod(o),
                               endpoint |-> KeyedEndpoint(o, key)])
    /\ UNCHANGED <<options, client, callVars, singletonVars, aggVars, yamlVars, concVars, sshVars>>

----------------------------------------------------------------------------
(* Calls outstanding together on one client *)

\* the request() calls that are outstanding together
ConcurrentCalls == {1, 2}

\* how long after the latest event a call is made or a fetch ends
ConcurrentLatencies == {0, 1}

ConcurrentResponses == {[status |-> 200, body |-> "json"], [status |-> 500, body |-> ""]}

\* a request() that has not been called yet
IdleCall ==
    [pc |-> "idle", response |-> Absent, retries |-> 0, attempt |-> 0, started |-> 0,
     delayDue |-> 0, log |-> <<>>]

\* request() runs up to `await fetch`: attempt k, with rem retries remaining, at time t
BeginAttempt(r, k, rem, t) ==
    [r EXCEPT !.pc = "fetch", !.retries = rem, !.attempt = k, !.started = t]

\* request(): the try block of the attempt in flight ends at time t with outcome o
EndAttempt(r, o, t) ==
    LET logged == [r EXCEPT !.response = Absent,
                            !.log = Append(@, [attempt |-> r.attempt, kind |-> o.kind,
                                               started |-> r.started, at |-> t])]
    IN  IF AttemptFails(o) /\ ShouldRetry(r.retries)
        THEN [logged EXCEPT !.pc = "delay", !.delayDue = t + RetryWait(client, r.retries)]
        ELSE [logged EXCEPT !.pc = "done"]

\* the attempts whose fetch is in flight
InFlight == {<<c, inflight[c].attempt>> : c \in {d \in ConcurrentCalls : inflight[d].pc = "fetch"}}

ConcurrentDues ==
    {tm.due : tm \in ctimers}
    \cup {inflight[c].delayDue : c \in {d \in ConcurrentCalls : inflight[d].pc = "delay"}}

\* An event can happen at time t when nothing armed falls due before t.
ConcurrentCanHappenAt(t) == t >= clock /\ \A d \in ConcurrentDues : d >= t

\* request(endpoint, options) is called for call c
RequestCalled(c, d) ==
    /\ inflight[c].pc = "idle"
    /\ ConcurrentCanHappenAt(clock + d)
    /\ inflight' = [inflight EXCEPT ![c] = BeginAttempt(@, 1, client.retryCount, clock + d)]
    /\ ctimers' = ArmTimeout(ctimers, <<c, 1>>, clock + d)
    /\ clock' = clock + d
    /\ UNCHANGED <<fired, options, client, callVars, singletonVars, aggVars, yamlVars, pathVars, sshVars>>

\* the fetch of call c resolves with a response: clearTimeout, then the ok
\* check throws, or request() awaits response.json()
RequestFetchResolves(c, resp, d) ==
    /\ inflight[c].pc = "fetch"
    /\ ConcurrentCanHappenAt(clock + d)
    /\ inflight' = [inflight EXCEPT ![c] =
                       IF ResponseOk(resp)
                       THEN [@ EXCEPT !.pc = "json", !.response = Present(resp)]
                       ELSE EndAttempt(@, ResponseOutcome(resp), clock + d)]
    /\ ctimers' = ClearTimeout(ctimers, <<c, inflight[c].attempt>>)
    /\ clock' = clock + d
    /\ UNCHANGED <<fired, options, client, callVars, singletonVars, aggVars, yamlVars, pathVars, sshVars>>

\* response.json() of call c settles
RequestJsonSettles(c, d) ==
    /\ inflight[c].pc = "json"
    /\ d \in BodyLatencies(inflight[c].response[1])
    /\ ConcurrentCanHappenAt(clock + d)
    /\ inflight' = [inflight EXCEPT ![c] =
                       EndAttempt(@, ResponseOutcome(@.response[1]), clock + d)]
    /\ clock' = clock + d
    /\ UNCHANGED <<ctimers, fired, options, client, callVars, singletonVars, aggVars, yamlVars, pathVars, sshVars>>

\* the fetch of call c rejects with a network error: the timer stays armed
RequestFetchRejects(c, d) ==
    /\ inflight[c].pc = "fetch"
    /\ ConcurrentCanHappenAt(clock + d)
    /\ inflight' = [inflight EXCEPT ![c] = EndAttempt(@, NetworkOutcome, clock + d)]
    /\ clock' = clock + d
    /\ UNCHANGED <<ctimers, fired, options, client, callVars, singletonVars, aggVars, yamlVars, pathVars, sshVars>>

\* The abort timer tm falls due: controller.abort() rejects the fetch that
\* listens to the signal of its controller, if that fetch is still in flight.
RequestTimerFires(tm) ==
    /\ tm \in ctimers
    /\ ConcurrentCanHappenAt(tm.due)
    /\ LET hit == {a \in InFlight : Aborts(tm, a)}
       IN  /\ inflight' = [c \in ConcurrentCalls |->
                              IF <<c, inflight[c].attempt>> \in hit
                              THEN EndAttempt(inflight[c], AbortOutcome, tm.due)
                              ELSE inflight[c]]
           /\ fired' = fired \cup {[timer |-> tm.attempt, at |-> tm.due,
                                    inflight |-> InFlight, hit |-> hit]}
    /\ ctimers' = ctimers \ {tm}
    /\ clock' = tm.due
    /\ UNCHANGED <<options, client, callVars, singletonVars, aggVars, yamlVars, pathVars, sshVars>>

\* the retryDelay wait of call c ends: request(endpoint, options, retries - 1)
RequestDelayElapses(c) ==
    /\ inflight[c].pc = "delay"
    /\ ConcurrentCanHappenAt(inflight[c].delayDue)
    /\ inflight' = [inflight EXCEPT ![c] =
                       BeginAttempt(@, @.attempt + 1, @.retries - 1, @.delayDue)]
    /\ ctimers' = ArmTimeout(ctimers, <<c, inflight[c].attempt + 1>>, inflight[c].delayDue)
    /\ clock' = inflight[c].delayDue
    /\ UNCHANGED <<fired, options, client, callVars, singletonVars, aggVars, yamlVars, pathVars, sshVars>>

----------------------------------------------------------------------------
(* The simulated SSH2 client *)

SshHost == "192.168.1.1"

SshUsername == "admin"

\* options that supply the credentials only
NoSshOptions == [port |-> Absent, onData |-> FALSE, onError |-> FALSE, onClose |-> FALSE]

\* new SSH2Client(o) while the module-level singleton is inst.  The file does
\* not import getKeeneticControl (the import in line 8 is a comment), so the
\* call in the constructor throws a ReferenceError whatever inst is; the catch
\* block logs it and the field keeneticControl stays unset.
SSH2Client(o, inst) ==
    [ host      |-> SshHost,
      username  |-> SshUsername,
      port      |-> OrNumber(o.port, 22),
      connected |-> FALSE,
      onData    |-> o.onData,
      onError   |-> o.onError,
      onClose   |-> o.onClose,
      keeneticControl |-> FALSE ]

isConnected == ssh.connected

\* the prompt written after the welcome message and after every output
Prompt(c) == c.username \o "@" \o c.host \o ":~$ "

\* String.prototype.toLowerCase follows the Unicode tables of the runtime; the
\* tables below are those of Unicode 17.0, for the characters a string can
\* hold here. The command is a string; its lower case is text, a sequence of
\* characters, in which a letter a string cannot hold is written by its code
\* point ("U+0253" is the small b with hook).

\* The letters that toLowerCase maps to another letter, and in LowerCase the
\* letter each maps to; capital sigma has a rule of its own.
UpperCase ==
    <<"A", "B", "C", "D", "E", "F", "G", "H", "I", "J", "K", "L", "M", "N", "O", "P",
      "Q", "R", "S", "T", "U", "V", "W", "X", "Y", "Z", "À", "Á", "Â", "Ã", "Ä", "Å",
      "Æ", "Ç", "È", "É", "Ê", "Ë", "Ì", "Í", "Î", "Ï", "Ð", "Ñ", "Ò", "Ó", "Ô", "Õ",
      "Ö", "Ø", "Ù", "Ú", "Û", "Ü", "Ý", "Þ", "Ɓ", "Ƃ", "Ƅ", "Ɔ", "Ƈ", "Ɖ", "Ɗ", "Ƌ",
      "Ǝ", "Ə", "Ɛ", "Ƒ", "Ɠ", "Ɣ", "Ɩ", "Ɨ", "Ƙ", "Ɯ", "Ɲ", "Ɵ", "Ơ", "Ƣ", "Ƥ", "Ʀ",
      "Ƨ", "Ʃ", "Ƭ", "Ʈ", "Ư", "Ʊ", "Ʋ", "Ƴ", "Ƶ", "Ʒ", "Ƹ", "Ƽ", "Ǆ", "ǅ", "Ǉ", "ǈ",
      "Ǌ", "ǋ", "Ǎ", "Ǐ", "Ǒ", "Ǔ", "Ǖ", "Ǘ", "Ǚ", "Ǜ", "Ǟ", "Ǡ", "Ǣ", "Ǥ", "Ǧ", "Ǩ",
      "Ǫ", "Ǭ", "Ǯ", "Ǳ", "ǲ", "Ǵ", "Ƕ", "Ƿ", "Ǹ", "Ǻ", "Ǽ", "Ǿ", "Ά", "Έ", "Ή", "Ί",
      "Ό", "Ύ", "Ώ", "Α", "Β", "Γ", "Δ", "Ε", "Ζ", "Η", "Θ", "Ι", "Κ", "Λ", "Μ", "Ν",
      "Ξ", "Ο", "Π", "Ρ", "Τ", "Υ", "Φ", "Χ", "Ψ", "Ω", "Ϊ", "Ϋ", "Ϗ", "Ϙ", "Ϛ", "Ϝ",
      "Ϟ", "Ϡ", "Ϣ", "Ϥ", "Ϧ", "Ϩ", "Ϫ", "Ϭ", "Ϯ", "ϴ", "Ϸ", "Ϲ", "Ϻ", "Ͻ", "Ͼ", "Ͽ",
      "Ҁ", "Ҋ", "Ҍ", "Ҏ", "Ґ", "Ғ", "Ҕ", "Җ", "Ҙ", "Қ", "Ҝ", "Ҟ", "Ҡ", "Ң", "Ҥ", "Ҧ",
      "Ҩ", "Ҫ", "Ҭ", "Ү", "Ұ", "Ҳ", "Ҵ", "Ҷ", "Ҹ", "Һ", "Ҽ", "Ҿ", "Ӏ", "Ӂ", "Ӄ", "Ӆ",
      "Ӈ", "Ӊ", "Ӌ", "Ӎ", "Ӑ", "Ӓ", "Ӕ", "Ӗ", "Ә", "Ӛ", "Ӝ", "Ӟ", "Ӡ", "Ӣ", "Ӥ", "Ӧ",
      "Ө", "Ӫ", "Ӭ", "Ӯ", "Ӱ", "Ӳ", "Ӵ", "Ӷ", "Ӹ", "Ӻ", "Ӽ", "Ӿ", "Ⴀ", "Ⴁ", "Ⴂ", "Ⴃ",
      "Ⴄ", "Ⴅ", "Ⴆ", "Ⴇ", "Ⴈ", "Ⴉ", "Ⴊ", "Ⴋ", "Ⴌ", "Ⴍ", "Ⴎ", "Ⴏ", "Ⴐ", "Ⴑ", "Ⴒ", "Ⴓ",
      "Ⴔ", "Ⴕ", "Ⴖ", "Ⴗ", "Ⴘ", "Ⴙ", "Ⴚ", "Ⴛ", "Ⴜ", "Ⴝ", "Ⴞ", "Ⴟ", "Ⴠ", "Ⴡ", "Ⴢ", "Ⴣ",
      "Ⴤ", "Ⴥ", "Ⴧ", "Ⴭ", "Ꭰ", "Ꭱ", "Ꭲ", "Ꭳ", "Ꭴ", "Ꭵ", "Ꭶ", "Ꭷ", "Ꭸ", "Ꭹ", "Ꭺ", "Ꭻ",
      "Ꭼ", "Ꭽ", "Ꭾ", "Ꭿ", "Ꮀ", "Ꮁ", "Ꮂ", "Ꮃ", "Ꮄ", "Ꮅ", "Ꮆ", "Ꮇ", "Ꮈ", "Ꮉ", "Ꮊ", "Ꮋ",
      "Ꮌ", "Ꮍ", "Ꮎ", "Ꮏ", "Ꮐ", "Ꮑ", "Ꮒ", "Ꮓ", "Ꮔ", "Ꮕ", "Ꮖ", "Ꮗ", "Ꮘ", "Ꮙ", "Ꮚ", "Ꮛ",
      "Ꮜ", "Ꮝ", "Ꮞ", "Ꮟ", "Ꮠ", "Ꮡ", "Ꮢ", "Ꮣ", "Ꮤ", "Ꮥ", "Ꮦ", "Ꮧ", "Ꮨ", "Ꮩ", "Ꮪ", "Ꮫ",
      "Ꮬ", "Ꮭ", "Ꮮ", "Ꮯ", "Ꮰ", "Ꮱ", "Ꮲ", "Ꮳ", "Ꮴ", "Ꮵ", "Ꮶ", "Ꮷ", "Ꮸ", "Ꮹ", "Ꮺ", "Ꮻ",
      "Ꮼ", "Ꮽ", "Ꮾ", "Ꮿ", "Ᏸ", "Ᏹ", "Ᏺ", "Ᏻ", "Ᏼ", "Ᏽ", "Ᲊ", "Ა", "Ბ", "Გ", "Დ", "Ე",
      "Ვ", "Ზ", "Თ", "Ი", "Კ", "Ლ", "Მ", "Ნ", "Ო", "Პ", "Ჟ", "Რ", "Ს", "Ტ", "Უ", "Ფ",
      "Ქ", "Ღ", "Ყ", "Შ", "Ჩ", "Ც", "Ძ", "Წ", "Ჭ", "Ხ", "Ჯ", "Ჰ", "Ჱ", "Ჲ", "Ჳ", "Ჴ",
      "Ჵ", "Ჶ", "Ჷ", "Ჸ", "Ჹ", "Ჺ", "Ჽ", "Ჾ", "Ჿ", "Ẁ", "Ẃ", "Ẅ", "Ẇ", "Ẉ", "Ẋ", "Ẍ",
      "Ẏ", "Ẑ", "Ẓ", "Ẕ", "ẞ", "Ạ", "Ả", "Ấ", "Ầ", "Ẩ", "Ẫ", "Ậ", "Ắ", "Ằ", "Ẳ", "Ẵ",
      "Ặ", "Ẹ", "Ẻ", "Ẽ", "Ế", "Ề", "Ể", "Ễ", "Ệ", "Ỉ", "Ị", "Ọ", "Ỏ", "Ố", "Ồ", "Ổ",
      "Ỗ", "Ộ", "Ớ", "Ờ", "Ở", "Ỡ", "Ợ", "Ụ", "Ủ", "Ứ", "Ừ", "Ử", "Ữ", "Ự", "Ỳ", "Ỵ",
      "Ỷ", "Ỹ", "Ỻ", "Ỽ", "Ỿ", "ᾈ", "ᾉ", "ᾊ", "ᾋ", "ᾌ", "ᾍ", "ᾎ", "ᾏ", "ᾘ", "ᾙ", "ᾚ",
      "ᾛ", "ᾜ", "ᾝ", "ᾞ", "ᾟ", "ᾨ", "ᾩ", "ᾪ", "ᾫ", "ᾬ", "ᾭ", "ᾮ", "ᾯ", "Ᾰ", "Ᾱ", "Ὰ",
      "Ά", "ᾼ", "Ὲ", "Έ", "Ὴ", "Ή", "ῌ", "Ῐ", "Ῑ", "Ὶ", "Ί", "Ῠ", "Ῡ", "Ὺ", "Ύ", "Ῥ",
      "Ὸ", "Ό", "Ὼ", "Ώ", "ῼ", "Ↄ", "Ⓐ", "Ⓑ", "Ⓒ", "Ⓓ", "Ⓔ", "Ⓕ", "Ⓖ", "Ⓗ", "Ⓘ", "Ⓙ",
      "Ⓚ", "Ⓛ", "Ⓜ", "Ⓝ", "Ⓞ", "Ⓟ", "Ⓠ", "Ⓡ", "Ⓢ", "Ⓣ", "Ⓤ", "Ⓥ", "Ⓦ", "Ⓧ", "Ⓨ", "Ⓩ",
      "Ⲁ", "Ⲃ", "Ⲅ", "Ⲇ", "Ⲉ", "Ⲋ", "Ⲍ", "Ⲏ", "Ⲑ", "Ⲓ", "Ⲕ", "Ⲗ", "Ⲙ", "Ⲛ", "Ⲝ", "Ⲟ",
      "Ⲡ", "Ⲣ", "Ⲥ", "Ⲧ", "Ⲩ", "Ⲫ", "Ⲭ", "Ⲯ", "Ⲱ", "Ⲳ", "Ⲵ", "Ⲷ", "Ⲹ", "Ⲻ", "Ⲽ", "Ⲿ",
      "Ⳁ", "Ⳃ", "Ⳅ", "Ⳇ", "Ⳉ", "Ⳋ", "Ⳍ", "Ⳏ", "Ⳑ", "Ⳓ", "Ⳕ", "Ⳗ", "Ⳙ", "Ⳛ", "Ⳝ", "Ⳟ",
      "Ⳡ", "Ⳣ", "Ⳬ", "Ⳮ", "Ⳳ", "Ꚁ", "Ꚃ", "Ꚅ", "Ꚇ", "Ꚉ", "Ꚋ", "Ꚍ", "Ꚏ", "Ꚑ", "Ꚓ", "Ꚕ",
      "Ꚗ", "Ꚙ", "Ꚛ", "Ꞁ", "Ꞃ", "Ꞅ", "Ꞇ", "Ꞌ", "Ɥ", "Ꞑ", "Ꞓ", "Ꞗ", "Ꞙ", "Ꞛ", "Ꞝ", "Ꞟ",
      "Ꞡ", "Ꞣ", "Ꞥ", "Ꞧ", "Ꞩ", "Ɦ", "Ɜ", "Ɡ", "Ɬ", "Ɪ", "Ʞ", "Ʇ", "Ʝ", "Ꭓ", "Ꞵ", "Ꞷ",
      "Ꞹ", "Ꞻ", "Ꞽ", "Ꞿ", "Ꟁ", "Ꟃ", "Ꞔ", "Ʂ", "Ᶎ", "Ꟈ", "Ꟊ", "Ɤ", "Ꟍ", "꟎", "Ꟑ", "꟒",
      "꟔", "Ꟗ", "Ꟙ", "Ꟛ", "Ƛ", "Ꟶ">>

LowerCase ==
    <<"a", "b", "c", "d", "e", "f", "g", "h", "i", "j", "k", "l",
      "m", "n", "o", "p", "q", "r", "s", "t", "u", "v", "w", "x",
      "y", "z", "à", "á", "â", "ã", "ä", "å", "æ", "ç", "è", "é",
      "ê", "ë", "ì", "í", "î", "ï", "ð", "ñ", "ò", "ó", "ô", "õ",
      "ö", "ø", "ù", "ú", "û", "ü", "ý", "þ", "U+0253", "ƃ", "ƅ", "U+0254",
      "ƈ", "U+0256", "U+0257", "ƌ", "ǝ", "U+0259", "U+025B", "ƒ", "U+0260", "U+0263", "U+0269", "U+0268",
      "ƙ", "U+026F", "U+0272", "U+0275", "ơ", "ƣ", "ƥ", "ʀ", "ƨ", "ʃ", "ƭ", "ʈ",
      "ư", "ʊ", "ʋ", "ƴ", "ƶ", "ʒ", "ƹ", "ƽ", "ǆ", "ǆ", "ǉ", "ǉ",
      "ǌ", "ǌ", "ǎ", "ǐ", "ǒ", "ǔ", "ǖ", "ǘ", "ǚ", "ǜ", "ǟ", "ǡ",
      "ǣ", "ǥ", "ǧ", "ǩ", "ǫ", "ǭ", "ǯ", "ǳ", "ǳ", "ǵ", "ƕ", "ƿ",
      "ǹ", "ǻ", "ǽ", "ǿ", "ά", "έ", "ή", "ί", "ό", "ύ", "ώ", "α",
      "β", "γ", "δ", "ε", "ζ", "η", "θ", "ι", "κ", "λ", "μ", "ν",
      "ξ", "ο", "π", "ρ", "τ", "υ", "φ", "χ", "ψ", "ω", "ϊ", "ϋ",
      "ϗ", "ϙ", "ϛ", "ϝ", "ϟ", "ϡ", "ϣ", "ϥ", "ϧ", "ϩ", "ϫ", "ϭ",
      "ϯ", "θ", "ϸ", "ϲ", "ϻ", "U+037B", "U+037C", "U+037D", "ҁ", "ҋ", "ҍ", "ҏ",
      "ґ", "ғ", "ҕ", "җ", "ҙ", "қ", "ҝ", "ҟ", "ҡ", "ң", "ҥ", "ҧ",
      "ҩ", "ҫ", "ҭ", "ү", "ұ", "ҳ", "ҵ", "ҷ", "ҹ", "һ", "ҽ", "ҿ",
      "ӏ", "ӂ", "ӄ", "ӆ", "ӈ", "ӊ", "ӌ", "ӎ", "ӑ", "ӓ", "ӕ", "ӗ",
      "ә", "ӛ", "ӝ", "ӟ", "ӡ", "ӣ", "ӥ", "ӧ", "ө", "ӫ", "ӭ", "ӯ",
      "ӱ", "ӳ", "ӵ", "ӷ", "ӹ", "ӻ", "ӽ", "ӿ", "U+2D00", "U+2D01", "U+2D02", "U+2D03",
      "U+2D04", "U+2D05", "U+2D06", "U+2D07", "U+2D08", "U+2D09", "U+2D0A", "U+2D0B", "U+2D0C", "U+2D0D", "U+2D0E", "U+2D0F",
      "U+2D10", "U+2D11", "U+2D12", "U+2D13", "U+2D14", "U+2D15", "U+2D16", "U+2D17", "U+2D18", "U+2D19", "U+2D1A", "U+2D1B",
      "U+2D1C", "U+2D1D", "U+2D1E", "U+2D1F", "U+2D20", "U+2D21", "U+2D22", "U+2D23", "U+2D24", "U+2D25", "U+2D27", "U+2D2D",
      "U+AB70", "U+AB71", "U+AB72", "U+AB73", "U+AB74", "U+AB75", "U+AB76", "U+AB77", "U+AB78", "U+AB79", "U+AB7A", "U+AB7B",
      "U+AB7C", "U+AB7D", "U+AB7E", "U+AB7F", "ꮀ", "ꮁ", "ꮂ", "ꮃ", "ꮄ", "ꮅ", "ꮆ", "ꮇ",
      "ꮈ", "ꮉ", "ꮊ", "ꮋ", "ꮌ", "ꮍ", "ꮎ", "ꮏ", "ꮐ", "ꮑ", "ꮒ", "ꮓ",
      "ꮔ", "ꮕ", "ꮖ", "ꮗ", "ꮘ", "ꮙ", "ꮚ", "ꮛ", "ꮜ", "ꮝ", "ꮞ", "ꮟ",
      "ꮠ", "ꮡ", "ꮢ", "ꮣ", "ꮤ", "ꮥ", "ꮦ", "ꮧ", "ꮨ", "ꮩ", "ꮪ", "ꮫ",
      "ꮬ", "ꮭ", "ꮮ", "ꮯ", "ꮰ", "ꮱ", "ꮲ", "ꮳ", "ꮴ", "ꮵ", "ꮶ", "ꮷ",
      "ꮸ", "ꮹ", "ꮺ", "ꮻ", "ꮼ", "ꮽ", "ꮾ", "ꮿ", "ᏸ", "ᏹ", "ᏺ", "ᏻ",
      "ᏼ", "ᏽ", "ᲊ", "ა", "ბ", "გ", "დ", "ე", "ვ", "ზ", "თ", "ი",
      "კ", "ლ", "მ", "ნ", "ო", "პ", "ჟ", "რ", "ს", "ტ", "უ", "ფ",
      "ქ", "ღ", "ყ", "შ", "ჩ", "ც", "ძ", "წ", "ჭ", "ხ", "ჯ", "ჰ",
      "ჱ", "ჲ", "ჳ", "ჴ", "ჵ", "ჶ", "ჷ", "ჸ", "ჹ", "ჺ", "ჽ", "ჾ",
      "ჿ", "ẁ", "ẃ", "ẅ", "ẇ", "ẉ", "ẋ", "ẍ", "ẏ", "ẑ", "ẓ", "ẕ",
      "ß", "ạ", "ả", "ấ", "ầ", "ẩ", "ẫ", "ậ", "ắ", "ằ", "ẳ", "ẵ",
      "ặ", "ẹ", "ẻ", "ẽ", "ế", "ề", "ể", "ễ", "ệ", "ỉ", "ị", "ọ",
      "ỏ", "ố", "ồ", "ổ", "ỗ", "ộ", "ớ", "ờ", "ở", "ỡ", "ợ", "ụ",
      "ủ", "ứ", "ừ", "ử", "ữ", "ự", "ỳ", "ỵ", "ỷ", "ỹ", "ỻ", "ỽ",
      "ỿ", "ᾀ", "ᾁ", "ᾂ", "ᾃ", "ᾄ", "ᾅ", "ᾆ", "ᾇ", "ᾐ", "ᾑ", "ᾒ",
      "ᾓ", "ᾔ", "ᾕ", "ᾖ", "ᾗ", "ᾠ", "ᾡ", "ᾢ", "ᾣ", "ᾤ", "ᾥ", "ᾦ",
      "ᾧ", "ᾰ", "ᾱ", "U+1F70", "U+1F71", "ᾳ", "U+1F72", "U+1F73", "U+1F74", "U+1F75", "ῃ", "ῐ",
      "ῑ", "U+1F76", "U+1F77", "ῠ", "ῡ", "U+1F7A", "U+1F7B", "ῥ", "U+1F78", "U+1F79", "U+1F7C", "U+1F7D",
      "ῳ", "ↄ", "ⓐ", "ⓑ", "ⓒ", "ⓓ", "ⓔ", "ⓕ", "ⓖ", "ⓗ", "ⓘ", "ⓙ",
      "ⓚ", "ⓛ", "ⓜ", "ⓝ", "ⓞ", "ⓟ", "ⓠ", "ⓡ", "ⓢ", "ⓣ", "ⓤ", "ⓥ",
      "ⓦ", "ⓧ", "ⓨ", "ⓩ", "ⲁ", "ⲃ", "ⲅ", "ⲇ", "ⲉ", "ⲋ", "ⲍ", "ⲏ",
      "ⲑ", "ⲓ", "ⲕ", "ⲗ", "ⲙ", "ⲛ", "ⲝ", "ⲟ", "ⲡ", "ⲣ", "ⲥ", "ⲧ",
      "ⲩ", "ⲫ", "ⲭ", "ⲯ", "ⲱ", "ⲳ", "ⲵ", "ⲷ", "ⲹ", "ⲻ", "ⲽ", "ⲿ",
      "ⳁ", "ⳃ", "ⳅ", "ⳇ", "ⳉ", "ⳋ", "ⳍ", "ⳏ", "ⳑ", "ⳓ", "ⳕ", "ⳗ",
      "ⳙ", "ⳛ", "ⳝ", "ⳟ", "ⳡ", "ⳣ", "ⳬ", "ⳮ", "ⳳ", "ꚁ", "ꚃ", "ꚅ",
      "ꚇ", "ꚉ", "ꚋ", "ꚍ", "ꚏ", "ꚑ", "ꚓ", "ꚕ", "ꚗ", "ꚙ", "ꚛ", "ꞁ",
      "ꞃ", "ꞅ", "ꞇ", "ꞌ", "U+0265", "ꞑ", "ꞓ", "ꞗ", "ꞙ", "ꞛ", "ꞝ", "ꞟ",
      "ꞡ", "ꞣ", "ꞥ", "ꞧ", "ꞩ", "U+0266", "U+025C", "U+0261", "U+026C", "U+026A", "ʞ", "ʇ",
      "ʝ", "U+AB53", "ꞵ", "ꞷ", "ꞹ", "ꞻ", "ꞽ", "ꞿ", "ꟁ", "ꟃ", "ꞔ", "ʂ",
      "ᶎ", "ꟈ", "ꟊ", "U+0264", "ꟍ", "꟏", "ꟑ", "ꟓ", "ꟕ", "ꟗ", "ꟙ", "ꟛ",
      "ƛ", "ꟶ">>

\* the letters that have a case and are not ignored by the rule of sigma
Cased ==
    { "A", "B", "C", "D", "E", "F", "G", "H", "I", "J", "K", "L", "M", "N", "O", "P",
      "Q", "R", "S", "T", "U", "V", "W", "X", "Y", "Z", "a", "b", "c", "d", "e", "f",
      "g", "h", "i", "j", "k", "l", "m", "n", "o", "p", "q", "r", "s", "t", "u", "v",
      "w", "x", "y", "z", "ª", "µ", "º", "À", "Á", "Â", "Ã", "Ä", "Å", "Æ", "Ç", "È",
      "É", "Ê", "Ë", "Ì", "Í", "Î", "Ï", "Ð", "Ñ", "Ò", "Ó", "Ô", "Õ", "Ö", "Ø", "Ù",
      "Ú", "Û", "Ü", "Ý", "Þ", "ß", "à", "á", "â", "ã", "ä", "å", "æ", "ç", "è", "é",
      "ê", "ë", "ì", "í", "î", "ï", "ð", "ñ", "ò", "ó", "ô", "õ", "ö", "ø", "ù", "ú",
      "û", "ü", "ý", "þ", "ÿ", "ƀ", "Ɓ", "Ƃ", "ƃ", "Ƅ", "ƅ", "Ɔ", "Ƈ", "ƈ", "Ɖ", "Ɗ",
      "Ƌ", "ƌ", "ƍ", "Ǝ", "Ə", "Ɛ", "Ƒ", "ƒ", "Ɠ", "Ɣ", "ƕ", "Ɩ", "Ɨ", "Ƙ", "ƙ", "ƚ",
      "ƛ", "Ɯ", "Ɲ", "ƞ", "Ɵ", "Ơ", "ơ", "Ƣ", "ƣ", "Ƥ", "ƥ", "Ʀ", "Ƨ", "ƨ", "Ʃ", "ƪ",
      "ƫ", "Ƭ", "ƭ", "Ʈ", "Ư", "ư", "Ʊ", "Ʋ", "Ƴ", "ƴ", "Ƶ", "ƶ", "Ʒ", "Ƹ", "ƹ", "ƺ",
      "Ƽ", "ƽ", "ƾ", "ƿ", "Ǆ", "ǅ", "ǆ", "Ǉ", "ǈ", "ǉ", "Ǌ", "ǋ", "ǌ", "Ǎ", "ǎ", "Ǐ",
      "ǐ", "Ǒ", "ǒ", "Ǔ", "ǔ", "Ǖ", "ǖ", "Ǘ", "ǘ", "Ǚ", "ǚ", "Ǜ", "ǜ", "ǝ", "Ǟ", "ǟ",
      "Ǡ", "ǡ", "Ǣ", "ǣ", "Ǥ", "ǥ", "Ǧ", "ǧ", "Ǩ", "ǩ", "Ǫ", "ǫ", "Ǭ", "ǭ", "Ǯ", "ǯ",
      "ǰ", "Ǳ", "ǲ", "ǳ", "Ǵ", "ǵ", "Ƕ", "Ƿ", "Ǹ", "ǹ", "Ǻ", "ǻ", "Ǽ", "ǽ", "Ǿ", "ǿ",
      "ʀ", "ʁ", "ʂ", "ʃ", "ʄ", "ʅ", "ʆ", "ʇ", "ʈ", "ʉ", "ʊ", "ʋ", "ʌ", "ʍ", "ʎ", "ʏ",
      "ʐ", "ʑ", "ʒ", "ʓ", "ʖ", "ʗ", "ʘ", "ʙ", "ʚ", "ʛ", "ʜ", "ʝ", "ʞ", "ʟ", "ʠ", "ʡ",
      "ʢ", "ʣ", "ʤ", "ʥ", "ʦ", "ʧ", "ʨ", "ʩ", "ʪ", "ʫ", "ʬ", "ʭ", "ʮ", "ʯ", "Ά", "Έ",
      "Ή", "Ί", "Ό", "Ύ", "Ώ", "ΐ", "Α", "Β", "Γ", "Δ", "Ε", "Ζ", "Η", "Θ", "Ι", "Κ",
      "Λ", "Μ", "Ν", "Ξ", "Ο", "Π", "Ρ", "Σ", "Τ", "Υ", "Φ", "Χ", "Ψ", "Ω", "Ϊ", "Ϋ",
      "ά", "έ", "ή", "ί", "ΰ", "α", "β", "γ", "δ", "ε", "ζ", "η", "θ", "ι", "κ", "λ",
      "μ", "ν", "ξ", "ο", "π", "ρ", "ς", "σ", "τ", "υ", "φ", "χ", "ψ", "ω", "ϊ", "ϋ",
      "ό", "ύ", "ώ", "Ϗ", "ϐ", "ϑ", "ϒ", "ϓ", "ϔ", "ϕ", "ϖ", "ϗ", "Ϙ", "ϙ", "Ϛ", "ϛ",
      "Ϝ", "ϝ", "Ϟ", "ϟ", "Ϡ", "ϡ", "Ϣ", "ϣ", "Ϥ", "ϥ", "Ϧ", "ϧ", "Ϩ", "ϩ", "Ϫ", "ϫ",
      "Ϭ", "ϭ", "Ϯ", "ϯ", "ϰ", "ϱ", "ϲ", "ϳ", "ϴ", "ϵ", "Ϸ", "ϸ", "Ϲ", "Ϻ", "ϻ", "ϼ",
      "Ͻ", "Ͼ", "Ͽ", "Ҁ", "ҁ", "Ҋ", "ҋ", "Ҍ", "ҍ", "Ҏ", "ҏ", "Ґ", "ґ", "Ғ", "ғ", "Ҕ",
      "ҕ", "Җ", "җ", "Ҙ", "ҙ", "Қ", "қ", "Ҝ", "ҝ", "Ҟ", "ҟ", "Ҡ", "ҡ", "Ң", "ң", "Ҥ",
      "ҥ", "Ҧ", "ҧ", "Ҩ", "ҩ", "Ҫ", "ҫ", "Ҭ", "ҭ", "Ү", "ү", "Ұ", "ұ", "Ҳ", "ҳ", "Ҵ",
      "ҵ", "Ҷ", "ҷ", "Ҹ", "ҹ", "Һ", "һ", "Ҽ", "ҽ", "Ҿ", "ҿ", "Ӏ", "Ӂ", "ӂ", "Ӄ", "ӄ",
      "Ӆ", "ӆ", "Ӈ", "ӈ", "Ӊ", "ӊ", "Ӌ", "ӌ", "Ӎ", "ӎ", "ӏ", "Ӑ", "ӑ", "Ӓ", "ӓ", "Ӕ",
      "ӕ", "Ӗ", "ӗ", "Ә", "ә", "Ӛ", "ӛ", "Ӝ", "ӝ", "Ӟ", "ӟ", "Ӡ", "ӡ", "Ӣ", "ӣ", "Ӥ",
      "ӥ", "Ӧ", "ӧ", "Ө", "ө", "Ӫ", "ӫ", "Ӭ", "ӭ", "Ӯ", "ӯ", "Ӱ", "ӱ", "Ӳ", "ӳ", "Ӵ",
      "ӵ", "Ӷ", "ӷ", "Ӹ", "ӹ", "Ӻ", "ӻ", "Ӽ", "ӽ", "Ӿ", "ӿ", "ր", "ց", "ւ", "փ", "ք",
      "օ", "ֆ", "և", "ֈ", "Ⴀ", "Ⴁ", "Ⴂ", "Ⴃ", "Ⴄ", "Ⴅ", "Ⴆ", "Ⴇ", "Ⴈ", "Ⴉ", "Ⴊ", "Ⴋ",
      "Ⴌ", "Ⴍ", "Ⴎ", "Ⴏ", "Ⴐ", "Ⴑ", "Ⴒ", "Ⴓ", "Ⴔ", "Ⴕ", "Ⴖ", "Ⴗ", "Ⴘ", "Ⴙ", "Ⴚ", "Ⴛ",
      "Ⴜ", "Ⴝ", "Ⴞ", "Ⴟ", "Ⴠ", "Ⴡ", "Ⴢ", "Ⴣ", "Ⴤ", "Ⴥ", "Ⴧ", "Ⴭ", "ა", "ბ", "გ", "დ",
      "ე", "ვ", "ზ", "თ", "ი", "კ", "ლ", "მ", "ნ", "ო", "პ", "ჟ", "რ", "ს", "ტ", "უ",
      "ფ", "ქ", "ღ", "ყ", "შ", "ჩ", "ც", "ძ", "წ", "ჭ", "ხ", "ჯ", "ჰ", "ჱ", "ჲ", "ჳ",
      "ჴ", "ჵ", "ჶ", "ჷ", "ჸ", "ჹ", "ჺ", "ჽ", "ჾ", "ჿ", "Ꭰ", "Ꭱ", "Ꭲ", "Ꭳ", "Ꭴ", "Ꭵ",
      "Ꭶ", "Ꭷ", "Ꭸ", "Ꭹ", "Ꭺ", "Ꭻ", "Ꭼ", "Ꭽ", "Ꭾ", "Ꭿ", "Ꮀ", "Ꮁ", "Ꮂ", "Ꮃ", "Ꮄ", "Ꮅ",
      "Ꮆ", "Ꮇ", "Ꮈ", "Ꮉ", "Ꮊ", "Ꮋ", "Ꮌ", "Ꮍ", "Ꮎ", "Ꮏ", "Ꮐ", "Ꮑ", "Ꮒ", "Ꮓ", "Ꮔ", "Ꮕ",
      "Ꮖ", "Ꮗ", "Ꮘ", "Ꮙ", "Ꮚ", "Ꮛ", "Ꮜ", "Ꮝ", "Ꮞ", "Ꮟ", "Ꮠ", "Ꮡ", "Ꮢ", "Ꮣ", "Ꮤ", "Ꮥ",
      "Ꮦ", "Ꮧ", "Ꮨ", "Ꮩ", "Ꮪ", "Ꮫ", "Ꮬ", "Ꮭ", "Ꮮ", "Ꮯ", "Ꮰ", "Ꮱ", "Ꮲ", "Ꮳ", "Ꮴ", "Ꮵ",
      "Ꮶ", "Ꮷ", "Ꮸ", "Ꮹ", "Ꮺ", "Ꮻ", "Ꮼ", "Ꮽ", "Ꮾ", "Ꮿ", "Ᏸ", "Ᏹ", "Ᏺ", "Ᏻ", "Ᏼ", "Ᏽ",
      "ᏸ", "ᏹ", "ᏺ", "ᏻ", "ᏼ", "ᏽ", "ᲀ", "ᲁ", "ᲂ", "ᲃ", "ᲄ", "ᲅ", "ᲆ", "ᲇ", "ᲈ", "Ᲊ",
      "ᲊ", "Ა", "Ბ", "Გ", "Დ", "Ე", "Ვ", "Ზ", "Თ", "Ი", "Კ", "Ლ", "Მ", "Ნ", "Ო", "Პ",
      "Ჟ", "Რ", "Ს", "Ტ", "Უ", "Ფ", "Ქ", "Ღ", "Ყ", "Შ", "Ჩ", "Ც", "Ძ", "Წ", "Ჭ", "Ხ",
      "Ჯ", "Ჰ", "Ჱ", "Ჲ", "Ჳ", "Ჴ", "Ჵ", "Ჶ", "Ჷ", "Ჸ", "Ჹ", "Ჺ", "Ჽ", "Ჾ", "Ჿ", "ᶀ",
      "ᶁ", "ᶂ", "ᶃ", "ᶄ", "ᶅ", "ᶆ", "ᶇ", "ᶈ", "ᶉ", "ᶊ", "ᶋ", "ᶌ", "ᶍ", "ᶎ", "ᶏ", "ᶐ",
      "ᶑ", "ᶒ", "ᶓ", "ᶔ", "ᶕ", "ᶖ", "ᶗ", "ᶘ", "ᶙ", "ᶚ", "Ẁ", "ẁ", "Ẃ", "ẃ", "Ẅ", "ẅ",
      "Ẇ", "ẇ", "Ẉ", "ẉ", "Ẋ", "ẋ", "Ẍ", "ẍ", "Ẏ", "ẏ", "Ẑ", "ẑ", "Ẓ", "ẓ", "Ẕ", "ẕ",
      "ẖ", "ẗ", "ẘ", "ẙ", "ẚ", "ẛ", "ẜ", "ẝ", "ẞ", "ẟ", "Ạ", "ạ", "Ả", "ả", "Ấ", "ấ",
      "Ầ", "ầ", "Ẩ", "ẩ", "Ẫ", "ẫ", "Ậ", "ậ", "Ắ", "ắ", "Ằ", "ằ", "Ẳ", "ẳ", "Ẵ", "ẵ",
      "Ặ", "ặ", "Ẹ", "ẹ", "Ẻ", "ẻ", "Ẽ", "ẽ", "Ế", "ế", "Ề", "ề", "Ể", "ể", "Ễ", "ễ",
      "Ệ", "ệ", "Ỉ", "ỉ", "Ị", "ị", "Ọ", "ọ", "Ỏ", "ỏ", "Ố", "ố", "Ồ", "ồ", "Ổ", "ổ",
      "Ỗ", "ỗ", "Ộ", "ộ", "Ớ", "ớ", "Ờ", "ờ", "Ở", "ở", "Ỡ", "ỡ", "Ợ", "ợ", "Ụ", "ụ",
      "Ủ", "ủ", "Ứ", "ứ", "Ừ", "ừ", "Ử", "ử", "Ữ", "ữ", "Ự", "ự", "Ỳ", "ỳ", "Ỵ", "ỵ",
      "Ỷ", "ỷ", "Ỹ", "ỹ", "Ỻ", "ỻ", "Ỽ", "ỽ", "Ỿ", "ỿ", "ᾀ", "ᾁ", "ᾂ", "ᾃ", "ᾄ", "ᾅ",
      "ᾆ", "ᾇ", "ᾈ", "ᾉ", "ᾊ", "ᾋ", "ᾌ", "ᾍ", "ᾎ", "ᾏ", "ᾐ", "ᾑ", "ᾒ", "ᾓ", "ᾔ", "ᾕ",
      "ᾖ", "ᾗ", "ᾘ", "ᾙ", "ᾚ", "ᾛ", "ᾜ", "ᾝ", "ᾞ", "ᾟ", "ᾠ", "ᾡ", "ᾢ", "ᾣ", "ᾤ", "ᾥ",
      "ᾦ", "ᾧ", "ᾨ", "ᾩ", "ᾪ", "ᾫ", "ᾬ", "ᾭ", "ᾮ", "ᾯ", "ᾰ", "ᾱ", "ᾲ", "ᾳ", "ᾴ", "ᾶ",
      "ᾷ", "Ᾰ", "Ᾱ", "Ὰ", "Ά", "ᾼ", "ι", "ῂ", "ῃ", "ῄ", "ῆ", "ῇ", "Ὲ", "Έ", "Ὴ", "Ή",
      "ῌ", "ῐ", "ῑ", "ῒ", "ΐ", "ῖ", "ῗ", "Ῐ", "Ῑ", "Ὶ", "Ί", "ῠ", "ῡ", "ῢ", "ΰ", "ῤ",
      "ῥ", "ῦ", "ῧ", "Ῠ", "Ῡ", "Ὺ", "Ύ", "Ῥ", "ῲ", "ῳ", "ῴ", "ῶ", "ῷ", "Ὸ", "Ό", "Ὼ",
      "Ώ", "ῼ", "Ↄ", "ↄ", "Ⓐ", "Ⓑ", "Ⓒ", "Ⓓ", "Ⓔ", "Ⓕ", "Ⓖ", "Ⓗ", "Ⓘ", "Ⓙ", "Ⓚ", "Ⓛ",
      "Ⓜ", "Ⓝ", "Ⓞ", "Ⓟ", "Ⓠ", "Ⓡ", "Ⓢ", "Ⓣ", "Ⓤ", "Ⓥ", "Ⓦ", "Ⓧ", "Ⓨ", "Ⓩ", "ⓐ", "ⓑ",
      "ⓒ", "ⓓ", "ⓔ", "ⓕ", "ⓖ", "ⓗ", "ⓘ", "ⓙ", "ⓚ", "ⓛ", "ⓜ", "ⓝ", "ⓞ", "ⓟ", "ⓠ", "ⓡ",
      "ⓢ", "ⓣ", "ⓤ", "ⓥ", "ⓦ", "ⓧ", "ⓨ", "ⓩ", "Ⲁ", "ⲁ", "Ⲃ", "ⲃ", "Ⲅ", "ⲅ", "Ⲇ", "ⲇ",
      "Ⲉ", "ⲉ", "Ⲋ", "ⲋ", "Ⲍ", "ⲍ", "Ⲏ", "ⲏ", "Ⲑ", "ⲑ", "Ⲓ", "ⲓ", "Ⲕ", "ⲕ", "Ⲗ", "ⲗ",
      "Ⲙ", "ⲙ", "Ⲛ", "ⲛ", "Ⲝ", "ⲝ", "Ⲟ", "ⲟ", "Ⲡ", "ⲡ", "Ⲣ", "ⲣ", "Ⲥ", "ⲥ", "Ⲧ", "ⲧ",
      "Ⲩ", "ⲩ", "Ⲫ", "ⲫ", "Ⲭ", "ⲭ", "Ⲯ", "ⲯ", "Ⲱ", "ⲱ", "Ⲳ", "ⲳ", "Ⲵ", "ⲵ", "Ⲷ", "ⲷ",
      "Ⲹ", "ⲹ", "Ⲻ", "ⲻ", "Ⲽ", "ⲽ", "Ⲿ", "ⲿ", "Ⳁ", "ⳁ", "Ⳃ", "ⳃ", "Ⳅ", "ⳅ", "Ⳇ", "ⳇ",
      "Ⳉ", "ⳉ", "Ⳋ", "ⳋ", "Ⳍ", "ⳍ", "Ⳏ", "ⳏ", "Ⳑ", "ⳑ", "Ⳓ", "ⳓ", "Ⳕ", "ⳕ", "Ⳗ", "ⳗ",
      "Ⳙ", "ⳙ", "Ⳛ", "ⳛ", "Ⳝ", "ⳝ", "Ⳟ", "ⳟ", "Ⳡ", "ⳡ", "Ⳣ", "ⳣ", "ⳤ", "Ⳬ", "ⳬ", "Ⳮ",
      "ⳮ", "Ⳳ", "ⳳ", "Ꚁ", "ꚁ", "Ꚃ", "ꚃ", "Ꚅ", "ꚅ", "Ꚇ", "ꚇ", "Ꚉ", "ꚉ", "Ꚋ", "ꚋ", "Ꚍ",
      "ꚍ", "Ꚏ", "ꚏ", "Ꚑ", "ꚑ", "Ꚓ", "ꚓ", "Ꚕ", "ꚕ", "Ꚗ", "ꚗ", "Ꚙ", "ꚙ", "Ꚛ", "ꚛ", "Ꞁ",
      "ꞁ", "Ꞃ", "ꞃ", "Ꞅ", "ꞅ", "Ꞇ", "ꞇ", "Ꞌ", "ꞌ", "Ɥ", "ꞎ", "Ꞑ", "ꞑ", "Ꞓ", "ꞓ", "ꞔ",
      "ꞕ", "Ꞗ", "ꞗ", "Ꞙ", "ꞙ", "Ꞛ", "ꞛ", "Ꞝ", "ꞝ", "Ꞟ", "ꞟ", "Ꞡ", "ꞡ", "Ꞣ", "ꞣ", "Ꞥ",
      "ꞥ", "Ꞧ", "ꞧ", "Ꞩ", "ꞩ", "Ɦ", "Ɜ", "Ɡ", "Ɬ", "Ɪ", "ꞯ", "Ʞ", "Ʇ", "Ʝ", "Ꭓ", "Ꞵ",
      "ꞵ", "Ꞷ", "ꞷ", "Ꞹ", "ꞹ", "Ꞻ", "ꞻ", "Ꞽ", "ꞽ", "Ꞿ", "ꞿ", "Ꟁ", "ꟁ", "Ꟃ", "ꟃ", "Ꞔ",
      "Ʂ", "Ᶎ", "Ꟈ", "ꟈ", "Ꟊ", "ꟊ", "Ɤ", "Ꟍ", "ꟍ", "꟎", "꟏", "Ꟑ", "ꟑ", "꟒", "ꟓ", "꟔",
      "ꟕ", "Ꟗ", "ꟗ", "Ꟙ", "ꟙ", "Ꟛ", "ꟛ", "Ƛ", "Ꟶ", "ꟶ", "ꟺ", "ꮀ", "ꮁ", "ꮂ", "ꮃ", "ꮄ",
      "ꮅ", "ꮆ", "ꮇ", "ꮈ", "ꮉ", "ꮊ", "ꮋ", "ꮌ", "ꮍ", "ꮎ", "ꮏ", "ꮐ", "ꮑ", "ꮒ", "ꮓ", "ꮔ",
      "ꮕ", "ꮖ", "ꮗ", "ꮘ", "ꮙ", "ꮚ", "ꮛ", "ꮜ", "ꮝ", "ꮞ", "ꮟ", "ꮠ", "ꮡ", "ꮢ", "ꮣ", "ꮤ",
      "ꮥ", "ꮦ", "ꮧ", "ꮨ", "ꮩ", "ꮪ", "ꮫ", "ꮬ", "ꮭ", "ꮮ", "ꮯ", "ꮰ", "ꮱ", "ꮲ", "ꮳ", "ꮴ",
      "ꮵ", "ꮶ", "ꮷ", "ꮸ", "ꮹ", "ꮺ", "ꮻ", "ꮼ", "ꮽ", "ꮾ", "ꮿ" }

\* The characters the rule of sigma looks through. The grave accent is one
\* too; no command of the model holds it.
CaseIgnorable ==
    { "'", ".", ":", "^", "¨", "­", "¯", "´", "·", "¸", "ʰ", "ʱ", "ʲ", "ʳ", "ʴ", "ʵ",
      "ʶ", "ʷ", "ʸ", "ʹ", "ʺ", "ʻ", "ʼ", "ʽ", "ʾ", "ʿ", "ˀ", "ˁ", "˂", "˃", "˄", "˅",
      "ˆ", "ˇ", "ˈ", "ˉ", "ˊ", "ˋ", "ˌ", "ˍ", "ˎ", "ˏ", "ː", "ˑ", "˒", "˓", "˔", "˕",
      "˖", "˗", "˘", "˙", "˚", "˛", "˜", "˝", "˞", "˟", "ˠ", "ˡ", "ˢ", "ˣ", "ˤ", "˥",
      "˦", "˧", "˨", "˩", "˪", "˫", "ˬ", "˭", "ˮ", "˯", "˰", "˱", "˲", "˳", "˴", "˵",
      "˶", "˷", "˸", "˹", "˺", "˻", "˼", "˽", "˾", "˿", "΄", "΅", "·", "҃", "҄", "҅",
      "҆", "҇", "҈", "҉", "֑", "֒", "֓", "֔", "֕", "֖", "֗", "֘", "֙", "֚", "֛", "֜",
      "֝", "֞", "֟", "֠", "֡", "֢", "֣", "֤", "֥", "֦", "֧", "֨", "֩", "֪", "֫", "֬",
      "֭", "֮", "֯", "ְ", "ֱ", "ֲ", "ֳ", "ִ", "ֵ", "ֶ", "ַ", "ָ", "ֹ", "ֺ", "ֻ", "ּ",
      "ֽ", "ֿ", "ׁ", "ׂ", "ׄ", "ׅ", "ׇ", "״", "ۖ", "ۗ", "ۘ", "ۙ", "ۚ", "ۛ", "ۜ", "۝",
      "۟", "۠", "ۡ", "ۢ", "ۣ", "ۤ", "ۥ", "ۦ", "ۧ", "ۨ", "۪", "۫", "۬", "ۭ", "ަ", "ާ",
      "ި", "ީ", "ު", "ޫ", "ެ", "ޭ", "ޮ", "ޯ", "ް", "߫", "߬", "߭", "߮", "߯", "߰", "߱",
      "߲", "߳", "ߴ", "ߵ", "ߺ", "߽", "࢈", "࢐", "࢑", "ࢗ", "࢘", "࢙", "࢚", "࢛", "࢜", "࢝",
      "࢞", "࢟", "ࣉ", "࣊", "࣋", "࣌", "࣍", "࣎", "࣏", "࣐", "࣑", "࣒", "࣓", "ࣔ", "ࣕ", "ࣖ",
      "ࣗ", "ࣘ", "ࣙ", "ࣚ", "ࣛ", "ࣜ", "ࣝ", "ࣞ", "ࣟ", "࣠", "࣡", "࣢", "ࣣ", "ࣤ", "ࣥ", "ࣦ",
      "ࣧ", "ࣨ", "ࣩ", "࣪", "࣫", "࣬", "࣭", "࣮", "࣯", "ࣰ", "ࣱ", "ࣲ", "ࣳ", "ࣴ", "ࣵ", "ࣶ",
      "ࣷ", "ࣸ", "ࣹ", "ࣺ", "ࣻ", "ࣼ", "ࣽ", "ࣾ", "ࣿ", "ঁ", "়", "ু", "ূ", "ৃ", "ৄ", "্",
      "ৢ", "ৣ", "৾", "ઁ", "ં", "઼", "ુ", "ૂ", "ૃ", "ૄ", "ૅ", "ે", "ૈ", "્", "ૢ", "ૣ",
      "ૺ", "ૻ", "ૼ", "૽", "૾", "૿", "ஂ", "ீ", "்", "ಁ", "಼", "ಿ", "ೆ", "ೌ", "್", "ೢ",
      "ೣ", "ඁ", "්", "ි", "ී", "ු", "ූ", "ັ", "ິ", "ີ", "ຶ", "ື", "ຸ", "ູ", "຺", "ົ",
      "ຼ", "ໆ", "່", "້", "໊", "໋", "໌", "ໍ", "໎", "ྀ", "ཱྀ", "ྂ", "ྃ", "྄", "྆", "྇",
      "ྍ", "ྎ", "ྏ", "ྐ", "ྑ", "ྒ", "ྒྷ", "ྔ", "ྕ", "ྖ", "ྗ", "ྙ", "ྚ", "ྛ", "ྜ", "ྜྷ",
      "ྞ", "ྟ", "ྠ", "ྡ", "ྡྷ", "ྣ", "ྤ", "ྥ", "ྦ", "ྦྷ", "ྨ", "ྩ", "ྪ", "ྫ", "ྫྷ", "ྭ",
      "ྮ", "ྯ", "ྰ", "ྱ", "ྲ", "ླ", "ྴ", "ྵ", "ྶ", "ྷ", "ྸ", "ྐྵ", "ྺ", "ྻ", "ྼ", "࿆",
      "ႂ", "ႅ", "ႆ", "ႍ", "ႝ", "ჼ", "឴", "឵", "ិ", "ី", "ឹ", "ឺ", "ុ", "ូ", "ួ", "ំ",
      "៉", "៊", "់", "៌", "៍", "៎", "៏", "័", "៑", "្", "៓", "ៗ", "៝", "ᢅ", "ᢆ", "ᢩ",
      "ᪧ", "᪰", "᪱", "᪲", "᪳", "᪴", "᪵", "᪶", "᪷", "᪸", "᪹", "᪺", "᪻", "᪼", "᪽", "᪾",
      "ᪿ", "ᫀ", "᫁", "᫂", "᫃", "᫄", "᫅", "᫆", "᫇", "᫈", "᫉", "᫊", "᫋", "ᫌ", "ᫍ", "ᫎ",
      "᫏", "᫐", "᫑", "᫒", "᫓", "᫔", "᫕", "᫖", "᫗", "᫘", "᫙", "᫚", "᫛", "᫜", "᫝", "᫠",
      "᫡", "᫢", "᫣", "᫤", "᫥", "᫦", "᫧", "᫨", "᫩", "᫪", "᫫", "ᮀ", "ᮁ", "ᮢ", "ᮣ", "ᮤ",
      "ᮥ", "ᮨ", "ᮩ", "᮫", "ᮬ", "ᮭ", "᯦", "ᯨ", "ᯩ", "ᯭ", "ᯯ", "ᯰ", "ᯱ", "᳐", "᳑", "᳒",
      "᳔", "᳕", "᳖", "᳗", "᳘", "᳙", "᳚", "᳛", "᳜", "᳝", "᳞", "᳟", "᳠", "᳢", "᳣", "᳤",
      "᳥", "᳦", "᳧", "᳨", "᳭", "᳴", "᳸", "᳹", "ᶛ", "ᶜ", "ᶝ", "ᶞ", "ᶟ", "ᶠ", "ᶡ", "ᶢ",
      "ᶣ", "ᶤ", "ᶥ", "ᶦ", "ᶧ", "ᶨ", "ᶩ", "ᶪ", "ᶫ", "ᶬ", "ᶭ", "ᶮ", "ᶯ", "ᶰ", "ᶱ", "ᶲ",
      "ᶳ", "ᶴ", "ᶵ", "ᶶ", "ᶷ", "ᶸ", "ᶹ", "ᶺ", "ᶻ", "ᶼ", "ᶽ", "ᶾ", "ᶿ", "᷀", "᷁", "᷂",
      "᷃", "᷄", "᷅", "᷆", "᷇", "᷈", "᷉", "᷊", "᷋", "᷌", "᷍", "᷎", "᷏", "᷐", "᷑", "᷒",
      "ᷓ", "ᷔ", "ᷕ", "ᷖ", "ᷗ", "ᷘ", "ᷙ", "ᷚ", "ᷛ", "ᷜ", "ᷝ", "ᷞ", "ᷟ", "ᷠ", "ᷡ", "ᷢ",
      "ᷣ", "ᷤ", "ᷥ", "ᷦ", "ᷧ", "ᷨ", "ᷩ", "ᷪ", "ᷫ", "ᷬ", "ᷭ", "ᷮ", "ᷯ", "ᷰ", "ᷱ", "ᷲ",
      "ᷳ", "ᷴ", "᷵", "᷶", "᷷", "᷸", "᷹", "᷺", "᷻", "᷼", "᷽", "᷾", "᷿", "᾽", "᾿", "῀",
      "῁", "῍", "῎", "῏", "῝", "῞", "῟", "῭", "΅", "`", "´", "῾", "ₐ", "ₑ", "ₒ", "ₓ",
      "ₔ", "ₕ", "ₖ", "ₗ", "ₘ", "ₙ", "ₚ", "ₛ", "ₜ", "⃐", "⃑", "⃒", "⃓", "⃔", "⃕", "⃖",
      "⃗", "⃘", "⃙", "⃚", "⃛", "⃜", "⃝", "⃞", "⃟", "⃠", "⃡", "⃢", "⃣", "⃤", "⃥", "⃦",
      "⃧", "⃨", "⃩", "⃪", "⃫", "⃬", "⃭", "⃮", "⃯", "⃰", "⳯", "⳰", "⳱", "ⷠ", "ⷡ", "ⷢ",
      "ⷣ", "ⷤ", "ⷥ", "ⷦ", "ⷧ", "ⷨ", "ⷩ", "ⷪ", "ⷫ", "ⷬ", "ⷭ", "ⷮ", "ⷯ", "ⷰ", "ⷱ", "ⷲ",
      "ⷳ", "ⷴ", "ⷵ", "ⷶ", "ⷷ", "ⷸ", "ⷹ", "ⷺ", "ⷻ", "ⷼ", "ⷽ", "ⷾ", "ⷿ", "゙", "゚", "゛",
      "゜", "ゝ", "ゞ", "ー", "ヽ", "ヾ", "ꓸ", "ꓹ", "ꓺ", "ꓻ", "ꓼ", "ꓽ", "ꚜ", "ꚝ", "ꚞ", "ꚟ",
      "꛰", "꛱", "ꞈ", "꞉", "꞊", "꟱", "ꟲ", "ꟳ", "ꟴ", "ꟸ", "ꟹ", "꣄", "ꣅ", "꣠", "꣡", "꣢",
      "꣣", "꣤", "꣥", "꣦", "꣧", "꣨", "꣩", "꣪", "꣫", "꣬", "꣭", "꣮", "꣯", "꣰", "꣱", "ꣿ",
      "ꦀ", "ꦁ", "ꦂ", "꦳", "ꦶ", "ꦷ", "ꦸ", "ꦹ", "ꦼ", "ꦽ", "ꧏ", "ꧥ", "ꧦ", "ꪰ", "ꪲ", "ꪳ",
      "ꪴ", "ꪷ", "ꪸ", "ꪾ", "꪿", "꫁", "ꫝ", "ꫬ", "ꫭ", "ꫳ", "ꫴ", "꫶", "ꯥ", "ꯨ", "꯭", "﮲",
      "﮳", "﮴", "﮵", "﮶", "﮷", "﮸", "﮹", "﮺", "﮻", "﮼", "﮽", "﮾", "﮿", "﯀", "﯁", "﯂",
      "﻿", "ﾞ", "ﾟ", "￣", "￹", "￺", "￻" }

\* Final_Sigma: the capital sigma at position i of str comes after a cased
\* letter and before none, case-ignorable characters looked through.
FinalSigma(str, i) ==
    LET RECURSIVE Before(_)
        Before(j) == /\ j >= 1
                     /\ IF SubSeq(str, j, j) \in CaseIgnorable THEN Before(j - 1)
                        ELSE SubSeq(str, j, j) \in Cased
        RECURSIVE After(_)
        After(j) == /\ j <= Len(str)
                    /\ IF SubSeq(str, j, j) \in CaseIgnorable THEN After(j + 1)
                       ELSE SubSeq(str, j, j) \in Cased
    IN  Before(i - 1) /\ ~After(i + 1)

\* String.prototype.toLowerCase: the text of the lower-cased string
ToLowerCase(str) ==
    LET Lower(i) ==
            LET c == SubSeq(str, i, i)
            IN  IF c = "Σ" THEN (IF FinalSigma(str, i) THEN "ς" ELSE "σ")
                ELSE IF \E k \in 1..Len(UpperCase) : UpperCase[k] = c
                THEN LowerCase[CHOOSE k \in 1..Len(UpperCase) : UpperCase[k] = c]
                ELSE c
    IN  [i \in 1..Len(str) |-> Lower(i)]

\* String.prototype.trim
RECURSIVE Trim(_)
Trim(str) ==
    IF str = "" THEN ""
    ELSE IF SubSeq(str, 1, 1) \in WhiteSpace THEN Trim(SubSeq(str, 2, Len(str)))
    ELSE IF SubSeq(str, Len(str), Len(str)) \in WhiteSpace THEN Trim(SubSeq(str, 1, Len(str) - 1))
    ELSE str

getSimulatedResponse(command) ==
    LET cmd == ToLowerCase(Trim(command))
    IN  IF cmd \in {Chars("help"), Chars("?")}
        THEN "\nAvailable commands:\n"
             \o "  system        - System commands and information\n"
             \o "  interface     - Network interface configuration\n"
             \o "  ip            - IP configuration\n"
             \o "  dns           - DNS settings\n"
             \o "  firewall      - Firewall configuration\n"
             \o "  vpn           - VPN settings\n"
             \o "  wifi          - Wi-Fi configuration\n"
             \o "  usb           - USB device management\n"
             \o "  show          - Display system information\n"
             \o "  restart       - Restart the router\n"
             \o "  save          - Save configuration\n"
             \o "  exit          - Exit CLI\n"
        ELSE IF cmd \in {Chars("show system"), Chars("system show")}
        THEN "\nModel: Keenetic Giga (KN-1010)\n"
             \o "Firmware: 3.7.5\n"
             \o "Hardware: KN-1010\n"
             \o "Serial Number: S1234567890\n"
             \o "Uptime: 4 days, 21:11:41\n"
             \o "CPU Usage: 15%\n"
             \o "Memory Usage: 42%\n"
             \o "Temperature: 48°C\n"
        ELSE IF cmd \in {Chars("show interface"), Chars("interface show")}
        THEN "\nInterfaces:\n"
             \o "WAN: Ethernet, Connected, 300 Mbps\n"
             \o "LAN1: Ethernet, Connected, 100 Mbps\n"
             \o "LAN2: Ethernet, Not connected\n"
             \o "LAN3: Ethernet, Not connected\n"
             \o "LAN4: Ethernet, Not connected\n"
             \o "SFP: Not connected\n"
        ELSE IF cmd \in {Chars("show wifi"), Chars("wifi show")}
        THEN "\nWi-Fi networks:\n"
             \o "prolograms     - 2.4GHz, Channel 6, WPA2-PSK\n"
             \o "prolograms_5g  - 5GHz, Channel 36, WPA2-PSK\n"
        ELSE IF cmd \in {Chars("exit"), Chars("quit"), Chars("logout")} THEN "Logout"
        ELSE "Command executed: " \o command

\* what the SSH2Client shows to its callers and callbacks at one moment
SshSnapshot(c, em, closes, errors, rest) ==
    [connected |-> c.connected, emitted |-> Len(em), closes |-> closes,
     errors |-> errors, rest |-> Len(rest)]

SshNow == SshSnapshot(ssh, emitted, onCloseCalls, onErrorCalls, restCalls)

\* the texts are handed to onData, if the callback was supplied
Emit(c, em, i, texts) ==
    IF c.onData THEN em \o [k \in 1..Len(texts) |-> [call |-> i, text |-> texts[k]]] ELSE em

\* connect(): sets the flag and writes the welcome message and the prompt.
connect ==
    /\ Len(sshCalls) < MaxSshCalls
    /\ ssh' = [ssh EXCEPT !.connected = TRUE]
    /\ emitted' = Emit(ssh, emitted, 0,
                       << "SSH2 connection established to " \o ssh.host \o ":"
                              \o NumberText(ssh.port) \o "\r\n",
                          "Welcome to Keenetic Giga (KN-1010)\r\n",
                          Prompt(ssh) >>)
    /\ sshCalls' = Append(sshCalls,
          [op |-> "connect", before |-> SshNow,
           after |-> SshSnapshot(ssh', emitted', onCloseCalls, onErrorCalls, restCalls)])
    /\ UNCHANGED <<execs, onErrorCalls, onCloseCalls, restCalls>>
    /\ UNCHANGED <<options, client, callVars, singletonVars, aggVars, yamlVars, pathVars, concVars>>

\* an execute() without the check of the flag
NotConnectedNever(c) == FALSE

\* execute(): if (!this.connected) throw new Error("Not connected")
NotConnected(c) == ~c.connected

\* an execute() that writes the output and leaves the prompt out
FinishExecuteNoPrompt(i, r, em) ==
    /\ emitted' = IF r.thrown THEN em
                  ELSE Emit(ssh, em, i, << r.text \o "\r\n" >>)
    /\ onErrorCalls' = IF r.thrown /\ ssh.onError THEN onErrorCalls + 1 ELSE onErrorCalls

\* execute(): the rest of the outer try block once the command has ended with
\* r: the output and the prompt are written; a failure that reaches the outer
\* catch block goes to onError. Either way the promise of execute() resolves.
FinishExecute(i, r, em) ==
    /\ emitted' = IF r.thrown THEN em
                  ELSE Emit(ssh, em, i, << r.text \o "\r\n", Prompt(ssh) >>)
    /\ onErrorCalls' = IF r.thrown /\ ssh.onError THEN onErrorCalls + 1 ELSE onErrorCalls

\* execute(command) is called and runs up to its await, or to its end when it
\* has none to wait for.
execute(command) ==
    /\ Len(sshCalls) < MaxSshCalls
    /\ LET i == Len(execs) + 1
           call == [command |-> command, connected |-> ssh.connected, rest |-> FALSE,
                    pc |-> "done", result |-> "fulfilled", error |-> "", failure |-> Absent]
       IN  IF NotConnected(ssh)
           THEN /\ execs' = Append(execs, [call EXCEPT !.result = "rejected",
                                                       !.error = "Not connected"])
                /\ UNCHANGED <<emitted, onErrorCalls, restCalls>>
           ELSE IF ssh.keeneticControl
           THEN /\ execs' = Append(execs, [call EXCEPT !.pc = "await", !.result = "pending",
                                                       !.rest = TRUE])
                /\ emitted' = Emit(ssh, emitted, i, << command \o "\r\n" >>)
                /\ restCalls' = Append(restCalls, command)
                /\ UNCHANGED onErrorCalls
           ELSE /\ execs' = Append(execs, call)
                /\ FinishExecute(i, [thrown |-> FALSE, text |-> getSimulatedResponse(command)],
                                 Emit(ssh, emitted, i, << command \o "\r\n" >>))
                /\ UNCHANGED restCalls
    /\ sshCalls' = Append(sshCalls,
          [op |-> "execute", before |-> SshNow,
           after |-> SshSnapshot(ssh, emitted', onCloseCalls, onErrorCalls', restCalls')])
    /\ UNCHANGED <<ssh, onCloseCalls>>
    /\ UNCHANGED <<options, client, callVars, singletonVars, aggVars, yamlVars, pathVars, concVars>>

\* executeSshCommand settles for the i-th execute(), which resumes after its
\* await with its output, or with the failure request() propagates, which the
\* inner catch block turns into the output.  No execute() reaches that await
\* while keeneticControl is unset.
executeResumes(i, o) ==
    /\ i \in 1..Len(execs)
    /\ execs[i].pc = "await"
    /\ execs' = [execs EXCEPT ![i] = [@ EXCEPT !.pc = "done", !.result = "fulfilled",
                    !.failure = IF o.kind = "rejected" THEN Present(o.text) ELSE Absent]]
    /\ FinishExecute(i, [thrown |-> FALSE,
                         text |-> IF o.kind = "rejected" THEN "Error: " \o o.text ELSE o.text],
                     emitted)
    /\ UNCHANGED <<ssh, onCloseCalls, restCalls, sshCalls>>
    /\ UNCHANGED <<options, client, callVars, singletonVars, aggVars, yamlVars, pathVars, concVars>>

\* a disconnect() that closes whatever the flag says
ShouldCloseAlways(c) == TRUE

\* disconnect(): if (this.connected)
ShouldClose(c) == c.connected

\* disconnect(): clears the flag and calls onClose, when the client is connected.
disconnect ==
    /\ Len(sshCalls) < MaxSshCalls
    /\ IF ShouldClose(ssh)
       THEN /\ ssh' = [ssh EXCEPT !.connected = FALSE]
            /\ onCloseCalls' = IF ssh.onClose THEN onCloseCalls + 1 ELSE onCloseCalls
       ELSE UNCHANGED <<ssh, onCloseCalls>>
    /\ sshCalls' = Append(sshCalls,
          [op |-> "disconnect", before |-> SshNow,
           after |-> SshSnapshot(ssh', emitted, onCloseCalls', onErrorCalls, restCalls)])
    /\ UNCHANGED <<execs, emitted, onErrorCalls, restCalls>>
    /\ UNCHANGED <<options, client, callVars, singletonVars, aggVars, yamlVars, pathVars, concVars>>

----------------------------------------------------------------------------
(* Specification of one call on one client *)

SingletonIdle ==
    /\ keeneticControlInstance = Null
    /\ nextId = 1
    /\ calls = <<>>

AggIdle ==
    /\ reads = <<>>
    /\ agg = Pending
    /\ caller = "none"
    /\ exported = Pending

YamlIdle ==
    /\ json = [t |-> "null"]
    /\ yaml = <<>>

PathIdle == keyed = <<>>

ConcIdle ==
    /\ inflight = [c \in ConcurrentCalls |-> IdleCall]
    /\ ctimers = {}
    /\ clock = 0
    /\ fired = {}

SshIdle ==
    /\ ssh = SSH2Client(NoSshOptions, Null)
    /\ execs = <<>>
    /\ emitted = <<>>
    /\ onErrorCalls = 0
    /\ onCloseCalls = 0
    /\ restCalls = <<>>
    /\ sshCalls = <<>>

ExtIdle == YamlIdle /\ PathIdle /\ ConcIdle /\ SshIdle

CallIdle ==
    /\ op = "none"
    /\ pc = "idle"
    /\ response = Absent
    /\ retries = 0
    /\ attempts = 0
    /\ outcomes = <<>>
    /\ timers = {}
    /\ waits = <<>>
    /\ now = 0
    /\ started = <<>>
    /\ ended = <<>>
    /\ delayDue = 0
    /\ reqResult = Pending
    /\ result = Pending

Init ==
    /\ options \in CallOptions
    /\ client = KeeneticControl(options)
    /\ CallIdle
    /\ SingletonIdle
    /\ AggIdle
    /\ ExtIdle

Next ==
    \/ \E o \in PipelineOps : Call(o)
    \/ \E resp \in Responses, d \in Latencies : FetchResolves(resp, d)
    \/ \E d \in {0} \cup Latencies : JsonSettles(d)
    \/ \E d \in Latencies : FetchRejects(d)
    \/ \E tm \in timers : TimerFires(tm)
    \/ DelayElapses
    \/ \E o \in DirectOps : CallDirect(o)
    \/ \E resp \in Responses, d \in Latencies : DirectSettles(ResponseOutcome(resp), d)
    \/ \E d \in Latencies : DirectSettles(NetworkOutcome, d)
    \/ \E d \in {0} \cup Latencies : BlobSettles(d)

Spec == Init /\ [][Next]_vars

TypeOK ==
    /\ pc \in {"idle", "fetch", "json", "blob", "delay", "done"}
    /\ response # Absent <=> pc \in {"json", "blob"}
    /\ op \in PipelineOps \cup DirectOps \cup {"none"}
    /\ retries \in 0..3
    /\ attempts \in 0..4
    /\ Len(outcomes) <= attempts
    /\ \A tm \in timers : tm.attempt \in 1..attempts /\ tm.due >= now
    /\ pc = "delay" => delayDue >= now
    /\ Len(started) = attempts
    /\ Len(ended) = Len(outcomes)

----------------------------------------------------------------------------
(* Specification of the singleton accessor *)

InitSingleton ==
    /\ options = NoOptions
    /\ client = KeeneticControl(options)
    /\ CallIdle
    /\ SingletonIdle
    /\ AggIdle
    /\ ExtIdle

NextSingleton ==
    \/ \E o \in AccessorOptions : getKeeneticControl(Present(o))
    \/ getKeeneticControl(Absent)
    \/ \E o \in AccessorOptions : initKeeneticControl(o)

SpecSingleton == InitSingleton /\ [][NextSingleton]_vars

----------------------------------------------------------------------------
(* Specification of the aggregate export *)

\* Options of the client whose aggregate export is explored.
AggregateOptions ==
    [ timeout    : {Absent},
      retryCount : {Present(1)},
      retryDelay : {Absent},
      debug      : {Absent} ]

InitAggregate ==
    /\ options \in AggregateOptions
    /\ client = KeeneticControl(options)
    /\ CallIdle
    /\ SingletonIdle
    /\ AggIdle
    /\ ExtIdle

\* what happens to the reads once they are issued
NextRead ==
    \/ \E i \in 1..Len(ReadMethods) :
          \E resp \in RouterResponses(ReadEndpoint(ReadMethods[i])) :
              ReadFetchResolves(i, resp)
    \/ \E i \in 1..Len(ReadMethods) : ReadJsonSettles(i)
    \/ \E i \in 1..Len(ReadMethods) : ReadTimerFires(i)
    \/ \E i \in 1..Len(ReadMethods) : ReadDelayElapses(i)

NextAggregate ==
    \/ getFullConfiguration
    \/ NextRead

SpecAggregate == InitAggregate /\ [][NextAggregate]_vars

\* the exporters that convert the aggregate
NextExport ==
    \/ exportAsJson
    \/ exportAsYaml
    \/ NextRead

SpecExport == InitAggregate /\ [][NextExport]_vars

----------------------------------------------------------------------------
(* Specification of the YAML transcription *)

\* the non-empty sequences over S of length at most n
SeqsUpTo(S, n) == UNION {[1..k -> S] : k \in 1..n}

YamlScalars ==
    { JNum(1), JNum(2), JNum(10), JStr(<<"x">>), JStr(<<"a", ":", "b">>), JNull, JBool(TRUE) }

YamlArrays == {JArr(items) : items \in SeqsUpTo({JNum(1), JNum(2)}, MaxItems)}

YamlObjects == {JObj(<< <<"k">> >>, <<v>>) : v \in {JNum(1), JStr(<<"x">>)}}

\* scalars, empty containers and containers of scalars
YamlFlat == YamlScalars \cup {JArr(<<>>), JObj(<<>>, <<>>)} \cup YamlArrays \cup YamlObjects

YamlKeys == << <<"a">>, <<"b">>, <<"c">> >>

\* containers of flat values
YamlNested ==
    {JObj(SubSeq(YamlKeys, 1, k), vals) : k \in {1}, vals \in [1..1 -> YamlFlat]}
    \cup {JObj(SubSeq(YamlKeys, 1, 2), vals) : vals \in [1..2 -> YamlFlat]}
    \cup {JObj(YamlKeys, vals) : vals \in [1..3 -> YamlFlat]}
    \cup {JArr(items) : items \in SeqsUpTo(YamlFlat, 2)}

\* containers of containers of containers
YamlDeep ==
    LET inner == YamlArrays \cup YamlObjects
        mid == {JObj(<< <<"a">> >>, <<w>>) : w \in inner}
               \cup {JArr(<<w>>) : w \in inner}
               \cup {JObj(<< <<"a">>, <<"b">> >>, <<JNum(1), w>>) : w \in inner}
    IN  {JObj(<< <<"a">> >>, <<v>>) : v \in mid} \cup {JArr(<<v>>) : v \in mid}

YamlInputs == YamlFlat \cup YamlNested \cup YamlDeep

InitYaml ==
    /\ options = NoOptions
    /\ client = KeeneticControl(options)
    /\ CallIdle
    /\ SingletonIdle
    /\ AggIdle
    /\ json \in YamlInputs
    /\ yaml = <<>>
    /\ PathIdle
    /\ ConcIdle
    /\ SshIdle

\* the applications of the pure function jsonToYaml to the values of YamlInputs
NextYaml == Transcribe

SpecYaml == InitYaml /\ [][NextYaml]_vars

----------------------------------------------------------------------------
(* Specification of the keyed endpoint operations *)

InitPaths ==
    /\ options = NoOptions
    /\ client = KeeneticControl(options)
    /\ CallIdle
    /\ SingletonIdle
    /\ AggIdle
    /\ ExtIdle

NextPaths == \E o \in KeyedOps : \E key \in KeysOf(o) : CallKeyed(o, key)

SpecPaths == InitPaths /\ [][NextPaths]_vars

----------------------------------------------------------------------------
(* Specification of calls outstanding together on one client *)

\* clients whose timeout outlasts a retryDelay wait
ConcurrentOptions ==
    [timeout : {Present(3)}, retryCount : {Present(1)},
     retryDelay : {Present(1), Present(2)}, debug : {Absent}]

InitConcurrent ==
    /\ options \in ConcurrentOptions
    /\ client = KeeneticControl(options)
    /\ CallIdle
    /\ SingletonIdle
    /\ AggIdle
    /\ ExtIdle

NextConcurrent ==
    \/ \E c \in ConcurrentCalls, d \in ConcurrentLatencies : RequestCalled(c, d)
    \/ \E c \in ConcurrentCalls, resp \in ConcurrentResponses, d \in ConcurrentLatencies :
          RequestFetchResolves(c, resp, d)
    \/ \E c \in ConcurrentCalls, d \in ConcurrentLatencies : RequestJsonSettles(c, d)
    \/ \E c \in ConcurrentCalls, d \in ConcurrentLatencies : RequestFetchRejects(c, d)
    \/ \E tm \in ctimers : RequestTimerFires(tm)
    \/ \E c \in ConcurrentCalls : RequestDelayElapses(c)

SpecConcurrent == InitConcurrent /\ [][NextConcurrent]_vars

----------------------------------------------------------------------------
(* Specification of the simulated SSH2 client *)

SSH2ClientOptions ==
    [port : {Absent, Present(2222)}, onData : BOOLEAN, onError : BOOLEAN, onClose : BOOLEAN]

\* commands typed into the terminal
SshCommands == {"help", "  EXIT ", "reboot"}

\* The client is built while the singleton is configured, or while it is not.
\* Either way no execute() waits for executeSshCommand, so executeResumes has
\* no step to take.
InitSsh ==
    /\ options = NoOptions
    /\ client = KeeneticControl(options)
    /\ CallIdle
    /\ AggIdle
    /\ YamlIdle
    /\ PathIdle
    /\ ConcIdle
    /\ keeneticControlInstance \in {Null, NewInstance(1, NoOptions)}
    /\ nextId = keeneticControlInstance.id + 1
    /\ calls = <<>>
    /\ \E o \in SSH2ClientOptions : ssh = SSH2Client(o, keeneticControlInstance)
    /\ execs = <<>>
    /\ emitted = <<>>
    /\ onErrorCalls = 0
    /\ onCloseCalls = 0
    /\ restCalls = <<>>
    /\ sshCalls = <<>>

NextSsh ==
    \/ connect
    \/ \E command \in SshCommands : execute(command)
    \/ disconnect

SpecSsh == InitSsh /\ [][NextSsh]_vars

\* The same transitions, with the scheduling the event loop guarantees: an
\* armed timer fires and a retryDelay wait ends; the transport owes nothing.
FairSpec ==
    /\ Init
    /\ [][Next]_vars
    /\ WF_vars(\E tm \in timers : TimerFires(tm))
    /\ WF_vars(DelayElapses)

----------------------------------------------------------------------------
(* Properties of the request pipeline *)

\* the transport answered attempt i with a 2xx status
Answered2xx(i) ==
    outcomes[i].kind = "response" /\ outcomes[i].resp.status \in 200..299

\* the transport failed attempt i: non-2xx status, network error or abort
TransportFailed(i) == ~Answered2xx(i)

\* number of attempts the transport failed
RECURSIVE FailedUpTo(_)
FailedUpTo(i) ==
    IF i = 0 THEN 0
    ELSE FailedUpTo(i - 1) + (IF TransportFailed(i) THEN 1 ELSE 0)

\* every 2xx answer of the call carried a JSON body
BodiesAreJson ==
    \A i \in 1..Len(outcomes) : Answered2xx(i) => outcomes[i].resp.body # ""

PipelineDone == op \in PipelineOps /\ pc = "done"

\* C1: with a configured retryCount n >= 0 and a transport that fails k times
\* and then succeeds, the call succeeds after exactly k+1 invocations when
\* n >= k and fails after exactly n+1 invocations when n < k.
RetryProperty ==
    (PipelineDone /\ options.retryCount # Absent /\ BodiesAreJson) =>
        LET n == options.retryCount[1]
            k == FailedUpTo(Len(outcomes))
        IN  /\ reqResult.status = "fulfilled" => (k <= n /\ attempts = k + 1)
            /\ reqResult.status = "rejected" => attempts = n + 1

\* C2: once a transport invocation of a call has returned a 2xx response, the
\* call makes no further transport invocation, whatever the body.
NoRetryAfter2xx ==
    op \in PipelineOps =>
        \A i \in 1..Len(outcomes) : Answered2xx(i) => attempts = i

\* C8: testConnection never throws, delivers true exactly when the probe got a
\* 2xx answer whatever its payload, and with the default retry count delivers
\* false after three retries against a transport that keeps answering 500.
TestConnectionProbe ==
    op = "testConnection" =>
        /\ result.status # "rejected"
        /\ pc = "done" =>
            /\ result.status = "fulfilled"
            /\ result.value = "true" <=> (\E i \in 1..Len(outcomes) : Answered2xx(i))
            /\ result.value = "false" <=> ~(\E i \in 1..Len(outcomes) : Answered2xx(i))
            /\ (/\ options.retryCount = Absent
                /\ \A i \in 1..Len(outcomes) :
                      outcomes[i].kind = "response" /\ outcomes[i].resp.status = 500)
               => (result.value = "false" /\ Len(waits) = 3 /\ attempts = 4)

\* the failure that attempt i ended with, read off the transport's outcome
FailureKind(i) ==
    IF outcomes[i].kind = "network" THEN "network"
    ELSE IF outcomes[i].kind = "abort" THEN "abort"
    ELSE IF outcomes[i].resp.status \notin 200..299 THEN "api"
    ELSE "syntax"

\* C9: a failed pipeline call delivers exactly the failure of its last attempt,
\* only once all retries are used up, and never a value in its place.
FailurePropagatesUnchanged ==
    op \in PipelineOps =>
        /\ reqResult.status = "rejected" =>
            /\ pc = "done"
            /\ retries = 0
            /\ Len(waits) = client.retryCount
            /\ Len(outcomes) = attempts
            /\ reqResult.error.attempt = attempts
            /\ reqResult.error.kind = FailureKind(attempts)
            /\ reqResult.error.status = outcomes[attempts].resp.status
            /\ op \notin {"testConnection"} => result = reqResult
        /\ (pc = "done" /\ reqResult.status = "fulfilled") =>
            /\ Answered2xx(attempts)
            /\ outcomes[attempts].resp.body # ""
            /\ reqResult.value = outcomes[attempts].resp.body

FailurePropagatesWitness ==
    /\ op = "getSystemInfo"
    /\ pc = "done"
    /\ reqResult.status = "rejected"
    /\ attempts >= 2
    /\ FailureKind(attempts) # FailureKind(1)

\* C10: the binary transfers invoke the transport exactly once whatever the
\* retryCount, and a non-2xx response or a transport error fails the call at
\* once, with no retry and no retryDelay wait.
DirectBypassesPipeline ==
    op \in DirectOps =>
        /\ attempts = 1
        /\ waits = <<>>
        /\ pc \in {"fetch", "blob", "done"}
        /\ pc = "done" =>
            /\ Len(outcomes) = 1
            /\ TransportFailed(1) => result.status = "rejected"
            /\ ~TransportFailed(1) => result.status = "fulfilled"

DirectBypassesWitness ==
    /\ op = "exportAsZud"
    /\ pc = "done"
    /\ client.retryCount >= 2
    /\ outcomes[1].kind = "response"
    /\ outcomes[1].resp.status = 500
    /\ result.status = "rejected"

\* C3: an attempt whose transport has not completed `timeout` milliseconds
\* after its start is aborted and counts as one failed attempt, so a call
\* against a transport that never resolves ends, rejected, after retryCount+1
\* aborted attempts.
TimeoutProperty ==
    /\ [](op \in PipelineOps =>
            /\ pc \in {"fetch", "json"} => now - started[attempts] <= client.timeout
            /\ \A i \in 1..Len(outcomes) :
                  /\ ended[i] - started[i] <= client.timeout
                  /\ outcomes[i].kind = "abort" => ended[i] - started[i] = client.timeout
            /\ Len(outcomes) + retries
                  = client.retryCount + (IF pc \in {"fetch", "json"} THEN 0 ELSE 1))
    /\ [](PipelineDone /\ (\A i \in 1..Len(outcomes) : outcomes[i].kind = "abort")
            => /\ reqResult.status = "rejected"
               /\ reqResult.error.kind = "abort"
               /\ attempts = client.retryCount + 1
               /\ Len(outcomes) = attempts)
    /\ (op \in PipelineOps /\ pc \in {"fetch", "json"}) ~> (pc \notin {"fetch", "json"})
    /\ (op \in PipelineOps) ~> (pc = "done")

----------------------------------------------------------------------------
(* Properties of the singleton accessor *)

\* C5: getKeeneticControl() with no options while no handle exists fails with
\* the configuration-missing error and leaves the singleton uninitialized, so
\* that a later getKeeneticControl(options) still creates the handle.
GetWithoutConfigurationFails ==
    \A j \in 1..Len(calls) :
        (\A i \in 1..(j - 1) : calls[i].fn = "get" /\ ~calls[i].hasOptions) =>
            /\ (calls[j].fn = "get" /\ ~calls[j].hasOptions) =>
                  /\ calls[j].threw = NotInitialized
                  /\ calls[j].returned = 0
                  /\ calls[j].built = 0
                  /\ j = Len(calls) => keeneticControlInstance = Null
            /\ (calls[j].fn = "get" /\ calls[j].hasOptions) =>
                  /\ calls[j].threw = ""
                  /\ calls[j].built # 0
                  /\ calls[j].returned = calls[j].built
                  /\ j = Len(calls) => keeneticControlInstance.id = calls[j].built

GetWithoutConfigurationWitness ==
    /\ Len(calls) >= 3
    /\ \A i \in 1..(Len(calls) - 1) : calls[i].fn = "get" /\ ~calls[i].hasOptions
    /\ calls[Len(calls)].fn = "get"
    /\ calls[Len(calls)].hasOptions
    /\ keeneticControlInstance.id # 0

\* index of the latest initKeeneticControl call among the first j calls (0: none)
RECURSIVE LastInit(_)
LastInit(j) ==
    IF j = 0 THEN 0
    ELSE IF calls[j].fn = "init" THEN j
    ELSE LastInit(j - 1)

\* index of the first getKeeneticControl call with options among calls i..j (0: none)
RECURSIVE FirstGetWithOptions(_, _)
FirstGetWithOptions(i, j) ==
    IF i > j THEN 0
    ELSE IF calls[i].fn = "get" /\ calls[i].hasOptions THEN i
    ELSE FirstGetWithOptions(i + 1, j)

\* the call whose handle is current after the first j calls (0: none)
Owner(j) ==
    IF LastInit(j) # 0 THEN LastInit(j) ELSE FirstGetWithOptions(1, j)

\* C6: getKeeneticControl returns the handle built by the most recent
\* initKeeneticControl call or, if there was none, by the first
\* getKeeneticControl call that supplied options; options passed once a handle
\* exists are ignored, and the handle never reverts to uninitialized.
FirstCallWinsUnlessReinitialized ==
    /\ \A j \in 1..Len(calls) :
          /\ Owner(j) # 0 =>
                /\ calls[Owner(j)].built # 0
                /\ calls[j].returned = calls[Owner(j)].built
                /\ calls[j].threw = ""
          /\ (calls[j].fn = "get" /\ Owner(j - 1) # 0) => calls[j].built = 0
          /\ calls[j].fn = "init" => calls[j].built # 0
    /\ Owner(Len(calls)) # 0 =>
          /\ keeneticControlInstance.id = calls[Owner(Len(calls))].built
          /\ keeneticControlInstance.id # 0
    /\ \A i, j \in 1..Len(calls) :
          (i < j /\ calls[i].built # 0 /\ calls[j].built # 0) => calls[i].built # calls[j].built

FirstCallWinsWitness ==
    /\ Len(calls) = MaxCalls
    /\ calls[1].fn = "get" /\ calls[1].hasOptions
    /\ calls[2].fn = "get" /\ calls[2].hasOptions
    /\ calls[3].fn = "init"
    /\ calls[4].fn = "get" /\ calls[4].hasOptions
    /\ calls[2].returned = calls[1].built
    /\ calls[4].returned = calls[3].built

\* the value the client holds for one option: the supplied one, else the default
SuppliedOr(x, d) == IF x # Absent THEN x[1] ELSE d

\* C7: the constructed client holds, for each of timeout, retryCount,
\* retryDelay and debug, the supplied value whenever one is supplied (0 and
\* false included) and the default (10000, 3, 1000, false) exactly when absent.
ConstructorDefaults ==
    keeneticControlInstance.id # 0 =>
        LET o == keeneticControlInstance.options[1]
            c == keeneticControlInstance.client
        IN  /\ c.timeout = SuppliedOr(o.timeout, 10000)
            /\ c.retryCount = SuppliedOr(o.retryCount, 3)
            /\ c.retryDelay = SuppliedOr(o.retryDelay, 1000)
            /\ c.debug = SuppliedOr(o.debug, FALSE)

----------------------------------------------------------------------------
(* Properties of the aggregate export *)

\* the read issued by method m
ReadOf(m) == reads[CHOOSE i \in 1..Len(ReadMethods) : ReadMethods[i] = m].promise

\* C4: getFullConfiguration is all-or-nothing over its nine reads: once any
\* read has failed after its retries the call has failed and delivers no
\* snapshot, and a snapshot is delivered only when all nine reads have
\* succeeded, each field holding the result of its own read.
AggregateAllOrNothing ==
    reads # <<>> =>
        /\ Len(reads) = 9
        /\ (\E i \in 1..9 : reads[i].promise.status = "rejected") =>
              /\ agg.status = "rejected"
              /\ agg.value = ""
              /\ \E i \in 1..9 : /\ reads[i].promise.status = "rejected"
                                 /\ reads[i].promise.error.attempt = client.retryCount + 1
                                 /\ agg.error = reads[i].promise.error
        /\ (\A i \in 1..9 : reads[i].promise.status # "rejected") =>
              agg.status # "rejected"
        /\ (\E i \in 1..9 : reads[i].promise.status = "pending") =>
              agg.status # "fulfilled"
        /\ (\A i \in 1..9 : reads[i].promise.status = "fulfilled") =>
              agg.status = "fulfilled"
        /\ agg.status = "fulfilled" =>
              /\ \A i \in 1..9 : reads[i].promise.status = "fulfilled"
              /\ agg.value.system = ReadOf("getSystemInfo").value
              /\ agg.value.system = "/rci/show/system"
              /\ agg.value.interfaces = ReadOf("getInterfaces").value
              /\ agg.value.interfaces = "/rci/show/interface"
              /\ agg.value.wifi = ReadOf("getWifiNetworks").value
              /\ agg.value.wifi = "/rci/show/interface/wireless"
              /\ agg.value.clients = ReadOf("getConnectedClients").value
              /\ agg.value.clients = "/rci/show/ip/hotspot"
              /\ agg.value.vpn = ReadOf("getVpnConnections").value
              /\ agg.value.vpn = "/rci/show/vpn"
              /\ agg.value.usb = ReadOf("getUsbDevices").value
              /\ agg.value.usb = "/rci/show/usb"
              /\ agg.value.firewall.rules = ReadOf("getFirewallRules").value
              /\ agg.value.firewall.rules = "/rci/show/ip/firewall"
              /\ agg.value.dns = ReadOf("getDnsSettings").value
              /\ agg.value.dns = "/rci/show/ip/dns"
              /\ agg.value.dhcp = ReadOf("getDhcpServers").value
              /\ agg.value.dhcp = "/rci/show/ip/dhcp/server"

\* eight reads have succeeded, the last to settle has failed after a retry
AggregateFailsWitness ==
    /\ reads # <<>>
    /\ agg.status = "rejected"
    /\ Cardinality({i \in 1..9 : reads[i].promise.status = "fulfilled"}) = 8
    /\ \E i \in 1..9 : /\ reads[i].promise.status = "rejected"
                       /\ reads[i].promise.error.attempt = client.retryCount + 1

----------------------------------------------------------------------------
(* Properties of the retry schedule *)

\* C11: the retries of one call are sequential: at most one attempt is in
\* flight, attempt i+1 starts only once attempt i has failed and a wait of the
\* fixed retryDelay has then elapsed, and the wait is the same before every retry.
RetriesAreSequential ==
    op \in PipelineOps =>
        /\ Len(outcomes) \in {attempts - 1, attempts}
        /\ Len(outcomes) = attempts - 1 <=> pc \in {"fetch", "json"}
        /\ Len(waits) = attempts - 1
        /\ \A i \in 1..(attempts - 1) :
              /\ outcomes[i].kind # "response"
                    \/ outcomes[i].resp.status \notin 200..299
                    \/ outcomes[i].resp.body = ""
              /\ ended[i] >= started[i]
              /\ started[i + 1] = ended[i] + client.retryDelay
              /\ waits[i] = client.retryDelay
        /\ \A i, j \in 1..Len(waits) : waits[i] = waits[j]

RetriesAreSequentialWitness ==
    /\ op \in PipelineOps
    /\ pc = "fetch"
    /\ attempts = 3
    /\ Len(waits) = 2
    /\ client.retryDelay = 250

----------------------------------------------------------------------------
(* Properties of the YAML transcription *)

\* the lines of a text
RECURSIVE SplitLines(_)
SplitLines(str) ==
    IF \A i \in 1..Len(str) : str[i] # "\n" THEN <<str>>
    ELSE LET i == CHOOSE k \in 1..Len(str) :
                     str[k] = "\n" /\ \A m \in 1..(k - 1) : str[m] # "\n"
         IN  <<SubSeq(str, 1, i - 1)>> \o SplitLines(SubSeq(str, i + 1, Len(str)))

\* a value rendered on the line of its key or of its dash
IsInline(v) ==
    \/ v.t \in {"null", "num", "bool", "str"}
    \/ v.t = "arr" /\ Len(v.items) = 0
    \/ v.t = "obj" /\ Len(v.keys) = 0

\* the text of a value rendered inline
InlineText(v) ==
    IF v.t = "arr" THEN <<"[", "]">>
    ELSE IF v.t = "obj" THEN <<"{", "}">>
    ELSE jsonToYaml(v, 0)

RECURSIVE FlattenLines(_)
FlattenLines(blocks) ==
    IF Len(blocks) = 0 THEN <<>> ELSE blocks[1] \o FlattenLines(Tail(blocks))

\* The lines of the nested block of a non-empty container at an indentation of
\* n spaces: `key: value` for an inline value; `key:` followed by the block of
\* the value two spaces deeper otherwise; an array item starts with `- ` in
\* place of the first two spaces of its own block, two spaces deeper.
RECURSIVE NestedBlock(_, _)
NestedBlock(v, n) ==
    IF v.t = "obj"
    THEN FlattenLines([i \in 1..Len(v.keys) |->
            IF IsInline(v.vals[i])
            THEN << Repeat(n) \o v.keys[i] \o <<":", " ">> \o InlineText(v.vals[i]) >>
            ELSE << Repeat(n) \o v.keys[i] \o <<":">> >> \o NestedBlock(v.vals[i], n + 2)])
    ELSE FlattenLines([i \in 1..Len(v.items) |->
            IF IsInline(v.items[i])
            THEN << Repeat(n) \o <<"-", " ">> \o InlineText(v.items[i]) >>
            ELSE LET b == NestedBlock(v.items[i], n + 2)
                 IN  << Repeat(n) \o <<"-", " ">> \o SubSeq(b[1], n + 3, Len(b[1])) >>
                     \o Tail(b)])

\* {a: 1, b: [1, 2], c: {}}
YamlExample ==
    JObj(<< <<"a">>, <<"b">>, <<"c">> >>,
         << JNum(1), JArr(<<JNum(1), JNum(2)>>), JObj(<<>>, <<>>) >>)

\* C12: the transcription renders an empty array as [] and an empty object as
\* {}, a scalar inline after `key: `, and a non-empty array or object under
\* `key:` as a nested block indented two more spaces per depth; the example
\* {a:1, b:[1,2], c:{}} renders the lines `a: 1`, `b:`, `  - 1`, `  - 2`, `c: {}`.
YamlRendering ==
    yaml # <<>> =>
        /\ (json.t = "arr" /\ Len(json.items) = 0) => yaml = <<"[", "]">>
        /\ (json.t = "obj" /\ Len(json.keys) = 0) => yaml = <<"{", "}">>
        /\ (json.t \in {"arr", "obj"} /\ ~IsInline(json)) =>
              SplitLines(yaml) = NestedBlock(json, 0)
        /\ json = YamlExample =>
              SplitLines(yaml) = << <<"a", ":", " ", "1">>,
                                    <<"b", ":">>,
                                    <<" ", " ", "-", " ", "1">>,
                                    <<" ", " ", "-", " ", "2">>,
                                    <<"c", ":", " ", "{", "}">> >>

YamlRenderingWitness ==
    /\ json = YamlExample
    /\ Len(SplitLines(yaml)) = 5

----------------------------------------------------------------------------
(* Properties of the keyed endpoint operations *)

\* the rows of the table of section 4.2 for the keyed operations: the method,
\* and the path pattern as the text before and after the key
PathTable ==
    [getInterface         |-> <<"GET", "/rci/show/interface/", "">>,
     configureInterface   |-> <<"PATCH", "/rci/interface/", "">>,
     configureWifiNetwork |-> <<"PATCH", "/rci/wireless/ssid/", "">>,
     deleteWifiNetwork    |-> <<"DELETE", "/rci/wireless/ssid/", "">>,
     blockClient          |-> <<"POST", "/rci/ip/hotspot/mac/", "/block">>,
     unblockClient        |-> <<"POST", "/rci/ip/hotspot/mac/", "/unblock">>,
     configureVpn         |-> <<"PATCH", "/rci/vpn/", "">>,
     updateFirewallRule   |-> <<"PATCH", "/rci/ip/firewall/rule/", "">>,
     deleteFirewallRule   |-> <<"DELETE", "/rci/ip/firewall/rule/", "">>,
     configureDhcpServer  |-> <<"PATCH", "/rci/ip/dhcp/server/", "">>]

\* C13: every keyed endpoint operation sends the method and the path of its row
\* of the table of section 4.2, and two calls of one operation with distinct
\* keys send distinct paths; configureWifiNetwork("MyWifi", ...) issues
\* PATCH /rci/wireless/ssid/MyWifi.
KeyedPathsInjective ==
    /\ \A i \in 1..Len(keyed) :
          LET c == keyed[i]
              row == PathTable[c.op]
          IN  /\ c.method = row[1]
              /\ Len(c.endpoint) > Len(row[2]) + Len(row[3])
              /\ SubSeq(c.endpoint, 1, Len(row[2])) = row[2]
              /\ SubSeq(c.endpoint, Len(c.endpoint) - Len(row[3]) + 1, Len(c.endpoint)) = row[3]
              /\ (c.op = "configureWifiNetwork" /\ c.key = "MyWifi") =>
                    (c.method = "PATCH" /\ c.endpoint = "/rci/wireless/ssid/MyWifi")
              /\ (c.op = "updateFirewallRule" /\ c.key = 12) =>
                    c.endpoint = "/rci/ip/firewall/rule/12"
    /\ \A i, j \in 1..Len(keyed) :
          keyed[i].key # keyed[j].key => keyed[i].endpoint # keyed[j].endpoint

KeyedPathsWitness ==
    /\ Len(keyed) = 2
    /\ keyed[1].op = "configureWifiNetwork"
    /\ keyed[1].key = "MyWifi"
    /\ keyed[2].key = "Home"
    /\ keyed[1].endpoint # keyed[2].endpoint

----------------------------------------------------------------------------
(* Properties of calls outstanding together *)

\* C14: each attempt has its own abort timer: a timer that falls due aborts at
\* most the fetch of the attempt that armed it, so every aborted attempt ended
\* at its own start plus the timeout; a timer left armed by an attempt that has
\* ended aborts nothing, neither a later attempt of its call nor an attempt of
\* another outstanding call.
AbortsOwnAttemptOnly ==
    /\ \A e \in fired :
          /\ e.hit \subseteq {e.timer}
          /\ e.timer \notin e.inflight => e.hit = {}
    /\ \A c \in ConcurrentCalls : \A i \in 1..Len(inflight[c].log) :
          LET a == inflight[c].log[i]
          IN  a.kind = "abort" =>
                /\ a.at = a.started + client.timeout
                /\ \E e \in fired : e.timer = <<c, a.attempt>> /\ e.at = a.at

\* a timer left armed by an attempt that failed falls due while a later attempt
\* of its call and an attempt of the other call are in flight
StaleTimerWitness ==
    \E e \in fired :
        /\ e.timer \notin e.inflight
        /\ e.hit = {}
        /\ \E a \in e.inflight : a[1] = e.timer[1] /\ a[2] > e.timer[2]
        /\ \E a \in e.inflight : a[1] # e.timer[1]

----------------------------------------------------------------------------
(* Properties of the simulated SSH2 client *)

\* the texts the i-th execute() handed to onData, in order
EmittedBy(i) ==
    LET Mine(m) == m.call = i
    IN  SelectSeq(emitted, Mine)


\* C16: execute on an SSH2Client that is not connected, never connected or
\* disconnected since its last connect, rejects with "Not connected", hands
\* nothing to onData, does not call the REST client and leaves the connected
\* flag as it was.
ExecuteNeedsConnection ==
    /\ \A i \in 1..Len(execs) :
          ~execs[i].connected =>
              /\ execs[i].result = "rejected"
              /\ execs[i].error = "Not connected"
              /\ ~execs[i].rest
              /\ EmittedBy(i) = <<>>
    /\ \A k \in 1..Len(sshCalls) :
          (sshCalls[k].op = "execute" /\ ~sshCalls[k].before.connected) =>
              sshCalls[k].after = sshCalls[k].before
    /\ Len(restCalls) = Cardinality({i \in 1..Len(execs) : execs[i].connected /\ execs[i].rest})

ExecuteNeedsConnectionWitness ==
    /\ ssh.onData /\ keeneticControlInstance # Null
    /\ Len(sshCalls) = 3
    /\ sshCalls[1].op = "connect"
    /\ sshCalls[2].op = "disconnect"
    /\ sshCalls[3].op = "execute"
    /\ execs[1].result = "rejected"

\* the disconnect calls made while the client was connected
LiveDisconnects ==
    {k \in 1..Len(sshCalls) : sshCalls[k].op = "disconnect" /\ sshCalls[k].before.connected}

\* C17: in any sequence of connect, execute and disconnect calls onClose is
\* invoked exactly once for each disconnect made while the client is connected
\* and never otherwise; a disconnect on a disconnected client changes nothing;
\* isConnected() is true exactly between a connect and the next disconnect.
CloseOncePerDisconnect ==
    /\ onCloseCalls = (IF ssh.onClose THEN Cardinality(LiveDisconnects) ELSE 0)
    /\ \A k \in 1..Len(sshCalls) :
          LET c == sshCalls[k]
          IN  /\ c.after.closes - c.before.closes =
                    (IF k \in LiveDisconnects /\ ssh.onClose THEN 1 ELSE 0)
              /\ (c.op = "disconnect" /\ ~c.before.connected) => c.after = c.before
              /\ c.after.connected = (IF c.op = "connect" THEN TRUE
                                      ELSE IF c.op = "disconnect" THEN FALSE
                                      ELSE c.before.connected)
              /\ k > 1 => /\ c.before.closes = sshCalls[k - 1].after.closes
                          /\ c.before.connected = sshCalls[k - 1].after.connected
    /\ isConnected <=>
          \E k \in 1..Len(sshCalls) :
              /\ sshCalls[k].op = "connect"
              /\ \A j \in (k + 1)..Len(sshCalls) : sshCalls[j].op # "disconnect"

CloseOncePerDisconnectWitness ==
    /\ ssh.onClose
    /\ onCloseCalls = 1
    /\ Len(sshCalls) = 3
    /\ sshCalls[1].op = "connect"
    /\ sshCalls[2].op = "disconnect"
    /\ sshCalls[3].op = "disconnect"

====
